---- MODULE Spec2Model ----
(***************************************************************************)
(* The Edgee client (src/index.ts, revision with SendResponse accessors    *)
(* and streaming): one client issuing one call, send (simple or advanced   *)
(* mode) or stream.  The remote model, the tool handlers, the caller's     *)
(* options and the consumer of the stream are the environment: their       *)
(* values are drawn from small pools.                                      *)
(*                                                                         *)
(* Specifications:                                                         *)
(*   Spec             one call on a constructed client                     *)
(*   SpecConfig       the client from its construction on, the             *)
(*                    environment changing                                 *)
(*   SpecTwo          two simple-mode sends interleaved on one client      *)
(*   SpecDefault      a simple-mode send without maxToolIterations         *)
(*   SpecStreamTools  streaming with tools, after the specification        *)
(*   SpecAccessors    the accessors of SendResponse and StreamChunk        *)
(*   SpecMalformed    send against payloads of malformed shape             *)
(*   SpecErrors       simple-mode send, every kind of handler failure      *)
(*   SpecNested       simple-mode send, usage with and without the nested  *)
(*                    counters                                             *)
(*   SpecResults      simple-mode send, every kind of handler result       *)
(*   SpecValidated    simple-mode send, every kind of argument text        *)
(*   SpecLive         simple-mode send under fairness of its awaits        *)
(*   SpecZero         simple-mode send, maxToolIterations down to -1       *)
(*   SpecChoices      simple-mode send, finish_reason and tool_calls at    *)
(*                    odds, tool calls in later choices                    *)
(*   SpecStreamEnd    stream, the last frame without its newline           *)
(***************************************************************************)
EXTENDS Integers, Sequences, FiniteSets, TLC

\* ------------------------------------------------------------ bounds
\* Largest maxToolIterations the caller passes.
MaxIter == 2
\* Most reads of the response stream that give a value.
MaxReads == 3

\* ------------------------------------------------------------ JS values
\* A JavaScript value is a record tagged by t.
Undef == [t |-> "undefined"]
Null == [t |-> "null"]
Str(s) == [t |-> "string", s |-> s]
Num(n) == [t |-> "number", n |-> n]
Arr(a) == [t |-> "array", a |-> a]
\* new Error(message) and its subclasses; class is the constructor's name.
Err(class, message) == [t |-> "error", class |-> class, message |-> message]

\* Boolean coercion: if (v), !v.
Truthy(v) ==
  CASE v.t \in {"undefined", "null"} -> FALSE
    [] v.t = "string" -> v.s # ""
    [] v.t = "number" -> v.n # 0
    [] OTHER -> TRUE

Nullish(v) == v.t \in {"undefined", "null"}

\* a ?? b
Coalesce(a, b) == IF Nullish(a) THEN b ELSE a

\* o?.f : undefined when o is nullish or has no property f.
Chain(o, f) ==
  IF Nullish(o) THEN Undef
  ELSE IF f \in DOMAIN o THEN o[f] ELSE Undef

\* Mutant of First: the last element of the array.
First_Last(arr) == IF Len(arr.a) = 0 THEN Undef ELSE arr.a[Len(arr.a)]

\* arr[0] of an array value: undefined when the array is empty.
First(arr) == IF Len(arr.a) = 0 THEN Undef ELSE arr.a[1]

\* ------------------------------------------------------------ tools
\* A Tool instance: name, schema and handler (hid names the handler function).
WeatherTool == [name |-> "get_weather", schema |-> "location", hid |-> "weather"]
WeatherTool2 == [name |-> "get_weather", schema |-> "location", hid |-> "weather2"]

\* The tools option of a simple-mode call.
ToolsPool ==
  { Undef, Arr(<<>>), Arr(<<WeatherTool>>), Arr(<<WeatherTool, WeatherTool2>>) }

\* Tool.toJSON: the wire declaration; no handler is involved.
toJSON(tool) ==
  [type |-> "function",
   function |-> [name |-> tool.name, parameters |-> tool.schema]]

RECURSIVE MapToJSON(_)
MapToJSON(s) ==
  IF s = <<>> THEN <<>> ELSE <<toJSON(Head(s))>> \o MapToJSON(Tail(s))

\* tools?.map((tool) => tool.toJSON())
OpenAiTools(tools) == IF Nullish(tools) THEN Undef ELSE Arr(MapToJSON(tools.a))

\* Mutant of MapOf: the first entry of a name is kept.
RECURSIVE MapOf_FirstWins(_)
MapOf_FirstWins(s) ==
  IF s = <<>> THEN <<>>
  ELSE LET rest == MapOf_FirstWins(Tail(s))
           first == Head(s)
       IN  [n \in (DOMAIN rest) \cup {first.name} |->
              IF n = first.name THEN first ELSE rest[n]]

\* new Map(tools?.map((tool) => [tool.name, tool])): a later entry of the same
\* name replaces an earlier one.
RECURSIVE MapOf(_)
MapOf(s) ==
  IF s = <<>> THEN <<>>
  ELSE LET rest == MapOf(SubSeq(s, 1, Len(s) - 1))
           last == s[Len(s)]
       IN  [n \in (DOMAIN rest) \cup {last.name} |->
              IF n = last.name THEN last ELSE rest[n]]

ToolMap(tools) == IF Nullish(tools) THEN <<>> ELSE MapOf(tools.a)

\* toolMap.get(name)
MapGet(map, name) == IF name \in DOMAIN map THEN map[name] ELSE Undef

\* ------------------------------------------------------------ JSON
\* The argument texts the remote model sends.
ArgsGood == "{\"location\":\"Paris\"}"
ArgsWrongType == "{\"location\":42}"
ArgsEmpty == "{}"
ArgsMalformed == "{\"location\":"
ArgsExtra == "{\"location\":\"Paris\",\"unit\":\"c\"}"

\* Mutant of JSONParse: text that does not parse gives an empty object.
JSONParse_Lenient(text) ==
  CASE text = ArgsGood ->
         [ok |-> TRUE, value |-> [t |-> "object", location |-> Str("Paris")]]
    [] text = ArgsWrongType ->
         [ok |-> TRUE, value |-> [t |-> "object", location |-> Num(42)]]
    [] text = ArgsExtra ->
         [ok |-> TRUE, value |-> [t |-> "object", location |-> Str("Paris"),
                                  unit |-> Str("c")]]
    [] OTHER ->
         [ok |-> TRUE, value |-> [t |-> "object"]]

\* JSON.parse on those texts: the parsed value, or the SyntaxError it throws.
JSONParse(text) ==
  CASE text = ArgsGood ->
         [ok |-> TRUE, value |-> [t |-> "object", location |-> Str("Paris")]]
    [] text = ArgsWrongType ->
         [ok |-> TRUE, value |-> [t |-> "object", location |-> Num(42)]]
    [] text = ArgsEmpty ->
         [ok |-> TRUE, value |-> [t |-> "object"]]
    [] text = ArgsExtra ->
         [ok |-> TRUE, value |-> [t |-> "object", location |-> Str("Paris"),
                                  unit |-> Str("c")]]
    [] OTHER ->
         [ok |-> FALSE, err |-> Err("SyntaxError", "Unexpected end of JSON input")]

\* The keys of the objects that are serialized, in insertion order.
KeyOrder == <<"error", "temperature", "location">>

\* JSON.stringify(v): text, or undefined for undefined.
RECURSIVE Stringify(_)
RECURSIVE StringifyKeys(_, _, _)
StringifyKeys(o, i, first) ==
  IF i > Len(KeyOrder) THEN ""
  ELSE LET k == KeyOrder[i]
       IN  IF k \in DOMAIN o /\ o[k].t # "undefined"
           THEN (IF first THEN "" ELSE ",") \o "\"" \o k \o "\":"
                \o Stringify(o[k]).s \o StringifyKeys(o, i + 1, FALSE)
           ELSE StringifyKeys(o, i + 1, first)
Stringify(v) ==
  CASE v.t = "undefined" -> Undef
    [] v.t = "null" -> Str("null")
    [] v.t = "string" -> Str("\"" \o v.s \o "\"")
    [] v.t = "number" -> Str(ToString(v.n))
    [] v.t = "object" -> Str("{" \o StringifyKeys(v, 1, TRUE) \o "}")
    [] OTHER -> Str("{}")

\* ------------------------------------------------------------ Tool.execute
\* Mutant of SchemaParse: the schema accepts whatever it is given.
SchemaParse_AcceptAll(schema, args) == [ok |-> TRUE, value |-> args]

\* schema.parse(args) of the zod schema z.object({location: z.string()}):
\* the typed arguments without the keys the schema does not declare, or the
\* ZodError it throws.
SchemaParse(schema, args) ==
  IF args.t = "object" /\ Chain(args, "location").t = "string"
  THEN [ok |-> TRUE, value |-> [t |-> "object", location |-> args.location]]
  ELSE [ok |-> FALSE, err |-> Err("ZodError", "Expected string, received " \o Chain(args, "location").t)]

\* What a handler invocation ends with: a returned value or a thrown one.
HandlerOutcomes ==
  { [k |-> "return", v |-> Str("sunny")],
    [k |-> "return", v |-> [t |-> "object", temperature |-> Num(18)]],
    [k |-> "throw", v |-> Err("Error", "boom")],
    [k |-> "throw", v |-> Str("oops")] }

\* Mutant of CatchResult: the thrown value's message is left out.
CatchResult_NoMessage(err) ==
  IF err.t = "error" /\ err.class = "ZodError"
  THEN [t |-> "object", error |-> Str("Invalid arguments")]
  ELSE [t |-> "object", error |-> Str("Tool execution failed")]

\* The catch block of the tool loop: the result for a thrown value.
CatchResult(err) ==
  IF err.t = "error" /\ err.class = "ZodError"
  THEN [t |-> "object", error |-> Str("Invalid arguments: " \o err.message)]
  ELSE IF err.t = "error"
  THEN [t |-> "object", error |-> Str("Tool execution failed: " \o err.message)]
  ELSE [t |-> "object", error |-> Str("Tool execution failed")]

\* Mutant of UnknownToolResult: the bare text, not an {error: ...} object.
UnknownToolResult_Plain(toolName) == Str("Unknown tool: " \o toolName)

UnknownToolResult(toolName) ==
  [t |-> "object", error |-> Str("Unknown tool: " \o toolName)]

\* typeof result === "string" ? result : JSON.stringify(result)
ResultContent(result) ==
  IF result.t = "string" THEN result ELSE Stringify(result)

\* ------------------------------------------------------------ messages
UserMessage(input) ==
  [role |-> "user", content |-> Str(input), tool_calls |-> Undef,
   tool_call_id |-> Undef]

AssistantMessage(choice) ==
  [role |-> "assistant",
   content |-> Coalesce(choice.message.content, Undef),
   tool_calls |-> choice.message.tool_calls,
   tool_call_id |-> Undef]

\* Mutant of ToolMessage: the tool message refers to the tool's name, not to
\* the call's id.
ToolMessage_WrongId(toolCall, result) ==
  [role |-> "tool", content |-> ResultContent(result), tool_calls |-> Undef,
   tool_call_id |-> Str(toolCall.function.name)]

ToolMessage(toolCall, result) ==
  [role |-> "tool", content |-> ResultContent(result), tool_calls |-> Undef,
   tool_call_id |-> Str(toolCall.id)]

\* ------------------------------------------------------------ responses
\* class SendResponse: the constructor and the accessors.
SendResponse(choices, usage) == [choices |-> choices, usage |-> usage]

\* get text()
text(r) ==
  LET c == Chain(Chain(First(r.choices), "message"), "content")
  IN  IF Truthy(c) THEN c ELSE Null

\* Mutant of message: no "?? null", an absent message is undefined.
message_NoCoalesce(r) == Chain(First(r.choices), "message")

\* get message()
message(r) == Coalesce(Chain(First(r.choices), "message"), Null)

\* get finishReason()
finishReason(r) == Coalesce(Chain(First(r.choices), "finish_reason"), Null)

\* get toolCalls()
toolCalls(r) ==
  Coalesce(Chain(Chain(First(r.choices), "message"), "tool_calls"), Null)

\* Usage objects the API reports.
UsageA ==
  [t |-> "object", prompt_tokens |-> 10, completion_tokens |-> 5,
   total_tokens |-> 15, input_tokens_details |-> [cached_tokens |-> 2],
   output_tokens_details |-> [reasoning_tokens |-> 1]]
UsageB ==
  [t |-> "object", prompt_tokens |-> 3, completion_tokens |-> 4,
   total_tokens |-> 7, input_tokens_details |-> [cached_tokens |-> 0],
   output_tokens_details |-> [reasoning_tokens |-> 3]]
UsagePool == {Undef, UsageA, UsageB}

\* The detail object f of usage u is there to read from: it is undefined when
\* the payload leaves it out.
HasDetails(u, f) == f \in DOMAIN u

\* The first of the two nested += statements that throws, for an accumulator
\* and a usage that are both truthy: none when all four detail objects exist.
FirstMissing(total, usage) ==
  IF ~(HasDetails(total, "input_tokens_details") /\ HasDetails(usage, "input_tokens_details"))
  THEN "input_tokens_details"
  ELSE IF ~(HasDetails(total, "output_tokens_details")
            /\ HasDetails(usage, "output_tokens_details"))
  THEN "output_tokens_details"
  ELSE "none"

\* The TypeError of reading a counter of a detail object that is undefined.
DetailsError(counter) ==
  Err("TypeError", "Cannot read properties of undefined (reading '" \o counter \o "')")

\* What the usage accumulation of a round throws: undefined when it completes.
UsageError(total, usage) ==
  IF Truthy(usage) /\ Truthy(total)
  THEN CASE FirstMissing(total, usage) = "input_tokens_details" ->
              DetailsError("cached_tokens")
         [] FirstMissing(total, usage) = "output_tokens_details" ->
              DetailsError("reasoning_tokens")
         [] OTHER -> Undef
  ELSE Undef

\* Mutant of AccumulateUsage: the last usage replaces the total.
AccumulateUsage_Overwrite(total, usage) == IF Truthy(usage) THEN usage ELSE total

\* The usage accumulation of one round of the loop: the accumulator after it,
\* which is the accumulator as far as the statements got when one of them threw.
\* structuredClone gives a deep copy, an object of the same value.
AccumulateUsage(total, usage) ==
  IF Truthy(usage)
  THEN IF ~Truthy(total)
       THEN usage
       ELSE LET scalars ==
                  [total EXCEPT
                     !.prompt_tokens = @ + usage.prompt_tokens,
                     !.completion_tokens = @ + usage.completion_tokens,
                     !.total_tokens = @ + usage.total_tokens]
            IN  CASE FirstMissing(total, usage) = "input_tokens_details" -> scalars
                  [] FirstMissing(total, usage) = "output_tokens_details" ->
                       [scalars EXCEPT
                          !.input_tokens_details.cached_tokens =
                             @ + usage.input_tokens_details.cached_tokens]
                  [] OTHER ->
                       [scalars EXCEPT
                          !.input_tokens_details.cached_tokens =
                             @ + usage.input_tokens_details.cached_tokens,
                          !.output_tokens_details.reasoning_tokens =
                             @ + usage.output_tokens_details.reasoning_tokens]
  ELSE total

\* Tool calls the remote model emits; get_time is never a registered tool.
ToolCall(id, name, arguments) ==
  [id |-> id, type |-> "function",
   function |-> [name |-> name, arguments |-> arguments]]

CallKinds ==
  << <<"get_time", ArgsEmpty>>, <<"get_weather", ArgsGood>>,
     <<"get_weather", ArgsMalformed>>, <<"get_weather", ArgsWrongType>> >>

\* One call of any kind, or two calls of consecutive kinds: every kind occurs
\* once as the first and once as the second call of a pair.
CallLists ==
  { <<ToolCall("call_1", CallKinds[i][1], CallKinds[i][2])>> : i \in DOMAIN CallKinds }
  \cup
  { <<ToolCall("call_1", CallKinds[i][1], CallKinds[i][2]),
      ToolCall("call_2", CallKinds[(i % Len(CallKinds)) + 1][1],
               CallKinds[(i % Len(CallKinds)) + 1][2])>> : i \in DOMAIN CallKinds }

Choice(index, content, tool_calls, finish_reason) ==
  [t |-> "object", index |-> index,
   message |-> [t |-> "object", role |-> "assistant", content |-> content,
                tool_calls |-> tool_calls],
   finish_reason |-> finish_reason]

\* choices whose first element carries no tool call
FinalChoices ==
  { Arr(<<>>),
    Arr(<<Choice(0, Str("Hi"), Undef, Str("stop"))>>),
    Arr(<<Choice(0, Str("Hi"), Arr(<<>>), Str("stop"))>>),
    Arr(<<Choice(0, Null, Undef, Str("tool_calls"))>>),
    Arr(<<Choice(0, Str("Hi"), Undef, Str("stop")),
          Choice(1, Null, Arr(<<ToolCall("call_9", "get_weather", ArgsGood)>>),
                 Str("tool_calls"))>>) }

\* choices whose first element carries tool calls
ToolCallChoices ==
  { Arr(<<Choice(0, Null, Arr(l), Str("tool_calls"))>>) : l \in CallLists }
  \cup
  { Arr(<<Choice(0, Str("Checking"),
                 Arr(<<ToolCall("call_1", "get_time", ArgsEmpty)>>), Str("stop")),
          Choice(1, Str("Hi"), Undef, Str("stop"))>>) }

\* What fetch resolves with: res.ok, res.status, res.text() and res.json().
HttpResponses ==
  { [ok |-> TRUE, status |-> 200, text |-> "",
     data |-> [choices |-> c, usage |-> u]] :
      c \in FinalChoices \cup ToolCallChoices, u \in UsagePool }
  \cup
  { [ok |-> FALSE, status |-> 401, text |-> "Unauthorized",
     data |-> [choices |-> Undef, usage |-> Undef]],
    [ok |-> FALSE, status |-> 500, text |-> "Internal Server Error",
     data |-> [choices |-> Undef, usage |-> Undef]] }

\* ------------------------------------------------------------ options
DefaultMaxToolIterations == 10

SimpleOptions ==
  { [model |-> "gpt-4o", input |-> Str("What is the weather?"), tools |-> tl,
     maxToolIterations |-> Num(n)] : tl \in ToolsPool, n \in 0..MaxIter }

WireTool ==
  [type |-> "function",
   function |-> [name |-> "get_weather", parameters |-> "location"]]

InputObjects ==
  { [t |-> "object",
     messages |-> <<[role |-> "system", content |-> Str("You are helpful."),
                     tool_calls |-> Undef, tool_call_id |-> Undef],
                    UserMessage("Say hello!")>>,
     tools |-> tl, tool_choice |-> tc] :
      tl \in {Undef, Arr(<<WireTool>>)}, tc \in {Undef, Str("auto")} }

AdvancedOptions == { [model |-> "gpt-4o", input |-> i] : i \in InputObjects }

\* Mutant of MaxToolIterations: the default cap is one round more.
MaxToolIterations_DefaultOff(opts) ==
  IF opts.maxToolIterations.t = "undefined"
  THEN DefaultMaxToolIterations + 1
  ELSE opts.maxToolIterations.n

\* const { maxToolIterations = 10 } = options
MaxToolIterations(opts) ==
  IF opts.maxToolIterations.t = "undefined"
  THEN DefaultMaxToolIterations
  ELSE opts.maxToolIterations.n

\* ------------------------------------------------------------ state
VARIABLES
  apiKey,       \* this.apiKey
  baseUrl,      \* this.baseUrl
  method,       \* the method called: none, send, stream
  pc,           \* where the call is: idle, fetch, fetchAdvanced, tool, handler, done;
                \* for stream: suspendedStart, streamFetch, read, suspendedYield, done
  options,      \* the options (send) or arguments (stream) of the call
  messages,     \* sendSimple: the conversation
  openAiTools,  \* sendSimple: the wire tool declarations
  toolMap,      \* sendSimple: name -> Tool
  iterations,   \* sendSimple: the round counter
  totalUsage,   \* sendSimple: the usage accumulator
  response,     \* sendSimple: the response of the current round
  tcIndex,      \* sendSimple: position of the tool loop in tool_calls (1-based)
  requests,     \* every fetch issued, in order
  received,     \* every fetch result, in order
  invoked,      \* every handler invocation, in order
  settled,      \* what each handler invocation ended with, in order
  buffer,       \* _handleStreamingResponse: the text after the last newline
  lines,        \* _handleStreamingResponse: the lines of the read still to decode
  chunks,       \* every StreamChunk yielded, in order
  reads,        \* every value reader.read() gave, in order
  reader,       \* the reader of the response body: none, locked, cancelled, released
  consumerCalls, \* the consumer's calls on the generator, in order: next, return
  env,          \* process.env: EDGEE_API_KEY and EDGEE_BASE_URL
  config,       \* the constructor call: its argument and the environment it saw
  events,       \* tool-augmented streaming: every event yielded, in order
  accum,        \* tool-augmented streaming: the tool calls reassembled in this round
  inflight,     \* concurrent sends: the locals of each call in flight
  probe,        \* the caller's side: the objects it built and what it read from them
  outcome       \* what the call settled with

sendVars ==
  <<messages, openAiTools, toolMap, iterations, totalUsage, response, tcIndex,
    invoked, settled>>

streamVars == <<buffer, lines, chunks, reads, reader, consumerCalls>>

\* What the actions of one send or stream call on a constructed client leave alone.
auxVars == <<env, config, events, accum, inflight, probe>>

vars ==
  <<apiKey, baseUrl, method, pc, options, requests, received, outcome, sendVars,
    streamVars, auxVars>>

\* a || b
Or(a, b) == IF Truthy(a) THEN a ELSE b

\* The constructor's locals apiKey and baseUrl: from a string argument, from
\* a config object, or left undefined.
ConfigApiKey(cfg) ==
  IF cfg.t = "string" THEN cfg
  ELSE IF Truthy(cfg) THEN cfg.apiKey
  ELSE Undef

ConfigBaseUrl(cfg) ==
  IF cfg.t = "string" THEN Undef
  ELSE IF Truthy(cfg) THEN cfg.baseUrl
  ELSE Undef

\* this.apiKey = apiKey || process.env.EDGEE_API_KEY || ""
ResolveApiKey(cfg, e) == Or(Or(ConfigApiKey(cfg), e.EDGEE_API_KEY), Str(""))

DefaultBaseUrl == "https://api.edgee.ai"

\* Mutant of ResolveBaseUrl: the environment comes before the config value.
ResolveBaseUrl_EnvFirst(cfg, e) ==
  Or(Or(e.EDGEE_BASE_URL, ConfigBaseUrl(cfg)), Str(DefaultBaseUrl))

\* this.baseUrl = baseUrl || process.env.EDGEE_BASE_URL || "https://api.edgee.ai"
ResolveBaseUrl(cfg, e) ==
  Or(Or(ConfigBaseUrl(cfg), e.EDGEE_BASE_URL), Str(DefaultBaseUrl))

\* The environment with neither variable set.
EmptyEnv == [EDGEE_API_KEY |-> Undef, EDGEE_BASE_URL |-> Undef]

\* The state of a call before it starts.
InitCall ==
  /\ method = "none"
  /\ options = Undef
  /\ messages = <<>>
  /\ openAiTools = Undef
  /\ toolMap = <<>>
  /\ iterations = 0
  /\ totalUsage = Undef
  /\ response = Undef
  /\ tcIndex = 0
  /\ requests = <<>>
  /\ received = <<>>
  /\ invoked = <<>>
  /\ settled = <<>>
  /\ buffer = <<>>
  /\ lines = <<>>
  /\ chunks = <<>>
  /\ reads = <<>>
  /\ reader = "none"
  /\ consumerCalls = <<>>
  /\ events = <<>>
  /\ accum = <<>>
  /\ inflight = <<>>
  /\ probe = <<>>
  /\ outcome = Undef

\* A client constructed as new Edgee("test-api-key") with an empty environment.
Init ==
  /\ env = EmptyEnv
  /\ config = [arg |-> Str("test-api-key"), env |-> EmptyEnv]
  /\ apiKey = ResolveApiKey(Str("test-api-key"), EmptyEnv).s
  /\ baseUrl = ResolveBaseUrl(Str("test-api-key"), EmptyEnv).s
  /\ pc = "idle"
  /\ InitCall

Return(v) == [k |-> "return", v |-> v]
Throw(e) == [k |-> "throw", v |-> e]

\* fetch(`${this.baseUrl}/v1/chat/completions`, {method: "POST", headers, body})
Request(body) ==
  [url |-> baseUrl \o "/v1/chat/completions",
   authorization |-> "Bearer " \o apiKey,
   body |-> body]

\* Mutant of CallApiBody: from the second round on the first message is left out.
CallApiBody_DropFirst(model, msgs, tools) ==
  [model |-> model, messages |-> IF Len(msgs) = 1 THEN msgs ELSE Tail(msgs),
   tools |-> IF Truthy(tools) THEN tools ELSE Undef,
   tool_choice |-> Undef, stream |-> Undef]

\* callApi: the request body
CallApiBody(model, msgs, tools) ==
  [model |-> model, messages |-> msgs,
   tools |-> IF Truthy(tools) THEN tools ELSE Undef,
   tool_choice |-> Undef, stream |-> Undef]

\* Mutant of AdvancedBody: tool_choice is not forwarded.
AdvancedBody_NoToolChoice(model, input) ==
  [model |-> model, messages |-> input.messages,
   tools |-> IF Truthy(input.tools) THEN input.tools ELSE Undef,
   tool_choice |-> Undef, stream |-> Undef]

\* sendAdvanced: the request body
AdvancedBody(model, input) ==
  [model |-> model, messages |-> input.messages,
   tools |-> IF Truthy(input.tools) THEN input.tools ELSE Undef,
   tool_choice |-> IF Truthy(input.tool_choice) THEN input.tool_choice ELSE Undef,
   stream |-> Undef]

\* Mutant of ApiError: the response body is left out of the message.
ApiError_NoBody(res) == Err("Error", "API error " \o ToString(res.status))

\* throw new Error(`API error ${res.status}: ${errorBody}`)
ApiError(res) ==
  Err("Error", "API error " \o ToString(res.status) \o ": " \o res.text)

MaxIterationsError(opts) ==
  Err("Error", "Max tool iterations (" \o ToString(MaxToolIterations(opts)) \o ") reached")

\* Mutant of LoopHead: the loop guard is iterations <= maxToolIterations.
LoopHead_OffByOne(opts, msgs, iters, tools) ==
  IF iters <= MaxToolIterations(opts)
  THEN /\ iterations' = iters + 1
       /\ requests' = Append(requests, Request(CallApiBody(opts.model, msgs, tools)))
       /\ pc' = "fetch"
       /\ outcome' = outcome
  ELSE /\ iterations' = iters
       /\ requests' = requests
       /\ pc' = "done"
       /\ outcome' = Throw(MaxIterationsError(opts))

\* Mutant of LoopHead: the request of a round is issued twice.
LoopHead_TwoRequests(opts, msgs, iters, tools) ==
  IF iters < MaxToolIterations(opts)
  THEN /\ iterations' = iters + 1
       /\ requests' = Append(Append(requests,
                                    Request(CallApiBody(opts.model, msgs, tools))),
                             Request(CallApiBody(opts.model, msgs, tools)))
       /\ pc' = "fetch"
       /\ outcome' = outcome
  ELSE /\ iterations' = iters
       /\ requests' = requests
       /\ pc' = "done"
       /\ outcome' = Throw(MaxIterationsError(opts))

\* Mutant of LoopHead: the loop runs for twice the rounds allowed.
LoopHead_CapTwice(opts, msgs, iters, tools) ==
  IF iters < 2 * MaxToolIterations(opts)
  THEN /\ iterations' = iters + 1
       /\ requests' = Append(requests, Request(CallApiBody(opts.model, msgs, tools)))
       /\ pc' = "fetch"
       /\ outcome' = outcome
  ELSE /\ iterations' = iters
       /\ requests' = requests
       /\ pc' = "done"
       /\ outcome' = Throw(MaxIterationsError(opts))

\* Mutant of LoopHead: a do...while loop, the first round runs whatever the cap.
LoopHead_DoWhile(opts, msgs, iters, tools) ==
  IF iters = 0 \/ iters < MaxToolIterations(opts)
  THEN /\ iterations' = iters + 1
       /\ requests' = Append(requests, Request(CallApiBody(opts.model, msgs, tools)))
       /\ pc' = "fetch"
       /\ outcome' = outcome
  ELSE /\ iterations' = iters
       /\ requests' = requests
       /\ pc' = "done"
       /\ outcome' = Throw(MaxIterationsError(opts))

\* The head of the agentic loop with the conversation msgs after iters rounds:
\* the next round's request, or the iteration-limit failure.
LoopHead(opts, msgs, iters, tools) ==
  IF iters < MaxToolIterations(opts)
  THEN /\ iterations' = iters + 1
       /\ requests' = Append(requests, Request(CallApiBody(opts.model, msgs, tools)))
       /\ pc' = "fetch"
       /\ outcome' = outcome
  ELSE /\ iterations' = iters
       /\ requests' = requests
       /\ pc' = "done"
       /\ outcome' = Throw(MaxIterationsError(opts))

sendSimple(opts) ==
  LET msgs == <<UserMessage(opts.input.s)>>
      tools == OpenAiTools(opts.tools)
  IN  /\ messages' = msgs
      /\ openAiTools' = tools
      /\ toolMap' = ToolMap(opts.tools)
      /\ totalUsage' = Undef
      /\ LoopHead(opts, msgs, 0, tools)
      /\ UNCHANGED <<response, tcIndex, received, invoked, settled>>

sendAdvanced(opts) ==
  /\ requests' = Append(requests, Request(AdvancedBody(opts.model, opts.input)))
  /\ pc' = "fetchAdvanced"
  /\ UNCHANGED <<messages, openAiTools, toolMap, iterations, totalUsage,
                 response, tcIndex, received, invoked, settled, outcome>>

\* send(options): string input is simple mode, object input advanced mode.
send(opts) ==
  /\ pc = "idle"
  /\ method' = "send"
  /\ options' = opts
  /\ UNCHANGED <<auxVars, apiKey, baseUrl, streamVars>>
  /\ IF opts.input.t = "string" THEN sendSimple(opts) ELSE sendAdvanced(opts)

\* sendAdvanced after its fetch resolved.
sendAdvancedResolve(res) ==
  /\ pc = "fetchAdvanced"
  /\ received' = Append(received, res)
  /\ pc' = "done"
  /\ outcome' = IF ~res.ok
                THEN Throw(ApiError(res))
                ELSE Return(SendResponse(res.data.choices, res.data.usage))
  /\ UNCHANGED <<auxVars, apiKey, baseUrl, method, options, requests, sendVars, streamVars>>

\* Mutant of FinalResponse: the last round's usage, not the total.
FinalResponse_LastUsage(resp, usage) == SendResponse(resp.choices, resp.usage)

\* return new SendResponse(response.choices, totalUsage)
FinalResponse(resp, usage) == SendResponse(resp.choices, usage)

\* The tool calls the loop is iterating over.
CurrentCalls == First(response.choices).message.tool_calls.a

\* Mutant of Advance: in the last round allowed the limit is raised after the
\* first tool message, the remaining calls are skipped.
Advance_StopEarly(msgs) ==
  /\ messages' = msgs
  /\ IF tcIndex < Len(CurrentCalls) /\ iterations < MaxToolIterations(options)
     THEN /\ tcIndex' = tcIndex + 1
          /\ pc' = "tool"
          /\ UNCHANGED <<iterations, requests, outcome>>
     ELSE /\ tcIndex' = tcIndex
          /\ LoopHead(options, msgs, iterations, openAiTools)

\* Mutant of Advance: the next round starts after the first tool message.
Advance_NoWait(msgs) ==
  /\ messages' = msgs
  /\ tcIndex' = tcIndex
  /\ LoopHead(options, msgs, iterations, openAiTools)

\* After the tool message of call tcIndex was pushed: the next call of the
\* round, or the next round.
Advance(msgs) ==
  /\ messages' = msgs
  /\ IF tcIndex < Len(CurrentCalls)
     THEN /\ tcIndex' = tcIndex + 1
          /\ pc' = "tool"
          /\ UNCHANGED <<iterations, requests, outcome>>
     ELSE /\ tcIndex' = tcIndex
          /\ LoopHead(options, msgs, iterations, openAiTools)

\* choices[0] when choices is undefined or null: the TypeError the engine throws.
IndexError == Err("TypeError", "Cannot read properties of undefined (reading '0')")

\* Mutant of callApiResolve: a first choice whose finish_reason is 'stop' ends
\* the loop whatever its tool_calls.
callApiResolve_FinishReason(res) ==
  /\ pc = "fetch"
  /\ received' = Append(received, res)
  /\ UNCHANGED <<auxVars, apiKey, baseUrl, method, options, openAiTools, toolMap,
                 iterations, requests, invoked, settled, streamVars>>
  /\ IF ~res.ok
     THEN /\ pc' = "done"
          /\ outcome' = Throw(ApiError(res))
          /\ UNCHANGED <<messages, totalUsage, response, tcIndex>>
     ELSE IF Nullish(res.data.choices)
     THEN /\ pc' = "done"
          /\ outcome' = Throw(IndexError)
          /\ response' = SendResponse(res.data.choices, res.data.usage)
          /\ UNCHANGED <<messages, totalUsage, tcIndex>>
     ELSE LET resp == SendResponse(res.data.choices, res.data.usage)
              choice == First(resp.choices)
              usage == AccumulateUsage(totalUsage, resp.usage)
              calls == Chain(Chain(choice, "message"), "tool_calls")
          IN  /\ response' = resp
              /\ totalUsage' = usage
              /\ IF UsageError(totalUsage, resp.usage) # Undef
                 THEN /\ pc' = "done"
                      /\ outcome' = Throw(UsageError(totalUsage, resp.usage))
                      /\ UNCHANGED <<messages, tcIndex>>
                 ELSE IF ~Truthy(calls) \/ Len(calls.a) = 0
                         \/ Chain(choice, "finish_reason") = Str("stop")
                 THEN /\ pc' = "done"
                      /\ outcome' = Return(FinalResponse(resp, usage))
                      /\ UNCHANGED <<messages, tcIndex>>
                 ELSE /\ messages' = Append(messages, AssistantMessage(choice))
                      /\ tcIndex' = 1
                      /\ pc' = "tool"
                      /\ outcome' = outcome

\* sendSimple after callApi's fetch resolved: up to the return, or to the
\* start of the tool loop. response.choices[0] throws when the payload has
\* no choices.
callApiResolve(res) ==
  /\ pc = "fetch"
  /\ received' = Append(received, res)
  /\ UNCHANGED <<auxVars, apiKey, baseUrl, method, options, openAiTools, toolMap,
                 iterations, requests, invoked, settled, streamVars>>
  /\ IF ~res.ok
     THEN /\ pc' = "done"
          /\ outcome' = Throw(ApiError(res))
          /\ UNCHANGED <<messages, totalUsage, response, tcIndex>>
     ELSE IF Nullish(res.data.choices)
     THEN /\ pc' = "done"
          /\ outcome' = Throw(IndexError)
          /\ response' = SendResponse(res.data.choices, res.data.usage)
          /\ UNCHANGED <<messages, totalUsage, tcIndex>>
     ELSE LET resp == SendResponse(res.data.choices, res.data.usage)
              choice == First(resp.choices)
              usage == AccumulateUsage(totalUsage, resp.usage)
              calls == Chain(Chain(choice, "message"), "tool_calls")
          IN  /\ response' = resp
              /\ totalUsage' = usage
              /\ IF UsageError(totalUsage, resp.usage) # Undef
                 THEN /\ pc' = "done"
                      /\ outcome' = Throw(UsageError(totalUsage, resp.usage))
                      /\ UNCHANGED <<messages, tcIndex>>
                 ELSE IF ~Truthy(calls) \/ Len(calls.a) = 0
                 THEN /\ pc' = "done"
                      /\ outcome' = Return(FinalResponse(resp, usage))
                      /\ UNCHANGED <<messages, tcIndex>>
                 ELSE /\ messages' = Append(messages, AssistantMessage(choice))
                      /\ tcIndex' = 1
                      /\ pc' = "tool"
                      /\ outcome' = outcome

\* One iteration of the tool loop up to its await: an unknown tool, argument
\* text that does not parse and arguments the schema rejects give their
\* result at once; otherwise the handler is invoked.
toolCallStep ==
  /\ pc = "tool"
  /\ UNCHANGED <<auxVars, apiKey, baseUrl, method, options, openAiTools, toolMap,
                 totalUsage, response, received, settled, streamVars>>
  /\ LET toolCall == CurrentCalls[tcIndex]
         toolName == toolCall.function.name
         tool == MapGet(toolMap, toolName)
         rawArgs == JSONParse(toolCall.function.arguments)
     IN  IF tool # Undef
         THEN IF ~rawArgs.ok
              THEN /\ Advance(Append(messages, ToolMessage(toolCall, CatchResult(rawArgs.err))))
                   /\ invoked' = invoked
              ELSE LET parsedArgs == SchemaParse(tool.schema, rawArgs.value)
                   IN  IF ~parsedArgs.ok
                       THEN /\ Advance(Append(messages,
                                 ToolMessage(toolCall, CatchResult(parsedArgs.err))))
                            /\ invoked' = invoked
                       ELSE /\ invoked' = Append(invoked,
                                 [hid |-> tool.hid, args |-> parsedArgs.value,
                                  id |-> toolCall.id, index |-> tcIndex,
                                  round |-> iterations])
                            /\ pc' = "handler"
                            /\ UNCHANGED <<messages, tcIndex, iterations, requests, outcome>>
         ELSE /\ Advance(Append(messages, ToolMessage(toolCall, UnknownToolResult(toolName))))
              /\ invoked' = invoked

\* Mutant of handlerSettle: no catch block, a rejected handler rejects send.
handlerSettle_NoCatch(o) ==
  /\ pc = "handler"
  /\ UNCHANGED <<auxVars, apiKey, baseUrl, method, options, openAiTools, toolMap,
                 totalUsage, response, received, invoked, streamVars>>
  /\ settled' = Append(settled, o)
  /\ IF o.k = "return"
     THEN Advance(Append(messages, ToolMessage(CurrentCalls[tcIndex], o.v)))
     ELSE /\ pc' = "done"
          /\ outcome' = Throw(o.v)
          /\ UNCHANGED <<messages, tcIndex, iterations, requests>>

\* The awaited handler settled with o: its result, or the catch block's.
handlerSettle(o) ==
  /\ pc = "handler"
  /\ UNCHANGED <<auxVars, apiKey, baseUrl, method, options, openAiTools, toolMap,
                 totalUsage, response, received, invoked, streamVars>>
  /\ settled' = Append(settled, o)
  /\ LET result == IF o.k = "return" THEN o.v ELSE CatchResult(o.v)
     IN  Advance(Append(messages, ToolMessage(CurrentCalls[tcIndex], result)))

\* ------------------------------------------------------------ streaming
\* Text of the response stream is a sequence of tokens.
NL == "\n"
SP == " "
DataPrefix == "data: "
DoneToken == "[DONE]"
HiA == "{\"choices\":[{\"index\":0,\"delta\":{\"content\":\"Hi\"},"
HiB == "\"finish_reason\":null}]}"
StopJson == "{\"choices\":[{\"index\":0,\"delta\":{},\"finish_reason\":\"stop\"}]}"
BadJson == "{invalid json}"
NullJson == "null"
Comment == ": keep-alive"

\* What one reader.read() can give.
ReadPool ==
  { <<DataPrefix, HiA, HiB, NL, NL>>,
    <<DataPrefix, HiA>>,
    <<HiB, NL, NL, DataPrefix, DoneToken, NL, NL>>,
    <<DataPrefix, BadJson, NL, NL, DataPrefix, StopJson, NL>>,
    <<DataPrefix, DoneToken, NL, NL, DataPrefix, HiA, HiB, NL, NL>>,
    <<DataPrefix, NullJson, NL, DataPrefix, StopJson, NL, NL>>,
    <<SP, Comment, NL, SP, DataPrefix, HiA, HiB, SP, NL>> }

ReadResults ==
  { [done |-> TRUE, value |-> <<>>] } \cup { [done |-> FALSE, value |-> v] : v \in ReadPool }

\* What fetch resolves with for a streamed request: res.ok, res.status,
\* res.text() and res.body.
StreamResponses ==
  { [ok |-> TRUE, status |-> 200, text |-> "", body |-> [t |-> "object"]],
    [ok |-> TRUE, status |-> 200, text |-> "", body |-> Null],
    [ok |-> FALSE, status |-> 401, text |-> "Unauthorized", body |-> Null],
    [ok |-> FALSE, status |-> 500, text |-> "Internal Server Error", body |-> Null] }

StreamInputs == {Str("Hello")} \cup InputObjects

\* buffer.split("\n")
RECURSIVE Split(_)
Split(txt) ==
  IF \A i \in 1..Len(txt) : txt[i] # NL
  THEN <<txt>>
  ELSE LET i == CHOOSE j \in 1..Len(txt) :
                  txt[j] = NL /\ \A h \in 1..(j - 1) : txt[h] # NL
       IN  <<SubSeq(txt, 1, i - 1)>> \o Split(SubSeq(txt, i + 1, Len(txt)))

\* line.trim()
RECURSIVE Trim(_)
Trim(line) ==
  IF line = <<>> THEN line
  ELSE IF Head(line) = SP THEN Trim(Tail(line))
  ELSE IF line[Len(line)] = SP THEN Trim(SubSeq(line, 1, Len(line) - 1))
  ELSE line

\* JSON.parse(data) on the payloads of the stream.
ParseData(data) ==
  CASE data = <<HiA, HiB>> ->
         [ok |-> TRUE,
          value |-> [t |-> "object",
                     choices |-> Arr(<<[t |-> "object", index |-> 0,
                                        delta |-> [t |-> "object", content |-> Str("Hi")],
                                        finish_reason |-> Null]>>)]]
    [] data = <<StopJson>> ->
         [ok |-> TRUE,
          value |-> [t |-> "object",
                     choices |-> Arr(<<[t |-> "object", index |-> 0,
                                        delta |-> [t |-> "object"],
                                        finish_reason |-> Str("stop")]>>)]]
    [] data = <<NullJson>> ->
         [ok |-> TRUE, value |-> Null]
    [] OTHER ->
         [ok |-> FALSE, err |-> Err("SyntaxError", "Unexpected token")]

\* class StreamChunk: the constructor.
StreamChunk(choices) == [choices |-> choices]

\* Mutant of Decode: a payload that does not parse ends the sequence.
RECURSIVE Decode_EndOnMalformed(_)
Decode_EndOnMalformed(ls) ==
  IF ls = <<>> THEN [k |-> "read"]
  ELSE LET trimmed == Trim(Head(ls))
       IN  IF trimmed = <<>> \/ trimmed[1] # DataPrefix
           THEN Decode_EndOnMalformed(Tail(ls))
           ELSE LET data == Tail(trimmed)
                    parsed == ParseData(data)
                IN  IF data = <<DoneToken>>
                    THEN [k |-> "return"]
                    ELSE IF parsed.ok /\ ~Nullish(parsed.value)
                    THEN [k |-> "yield",
                          chunk |-> StreamChunk(Chain(parsed.value, "choices")),
                          rest |-> Tail(ls)]
                    ELSE [k |-> "return"]

\* Mutant of Decode: the termination token is a payload like any other.
RECURSIVE Decode_IgnoreDone(_)
Decode_IgnoreDone(ls) ==
  IF ls = <<>> THEN [k |-> "read"]
  ELSE LET trimmed == Trim(Head(ls))
       IN  IF trimmed = <<>> \/ trimmed[1] # DataPrefix
           THEN Decode_IgnoreDone(Tail(ls))
           ELSE LET data == Tail(trimmed)
                    parsed == ParseData(data)
                IN  IF parsed.ok /\ ~Nullish(parsed.value)
                    THEN [k |-> "yield",
                          chunk |-> StreamChunk(Chain(parsed.value, "choices")),
                          rest |-> Tail(ls)]
                    ELSE Decode_IgnoreDone(Tail(ls))

\* The for loop over the lines of a read: what it reaches first, the yield of
\* a chunk, the return at [DONE], or the end of the lines (the next read).
\* The catch block takes the SyntaxError of JSON.parse and the TypeError of
\* parsed.choices on a null payload alike.
RECURSIVE Decode(_)
Decode(ls) ==
  IF ls = <<>> THEN [k |-> "read"]
  ELSE LET trimmed == Trim(Head(ls))
       IN  IF trimmed = <<>> \/ trimmed[1] # DataPrefix
           THEN Decode(Tail(ls))
           ELSE LET data == Tail(trimmed)
                    parsed == ParseData(data)
                IN  IF data = <<DoneToken>>
                    THEN [k |-> "return"]
                    ELSE IF parsed.ok /\ ~Nullish(parsed.value)
                    THEN [k |-> "yield",
                          chunk |-> StreamChunk(Chain(parsed.value, "choices")),
                          rest |-> Tail(ls)]
                    ELSE Decode(Tail(ls))

\* stream: the request body
StreamBody(model, input) ==
  [model |-> model,
   messages |-> IF input.t = "string" THEN <<UserMessage(input.s)>> ELSE input.messages,
   tools |-> IF input.t # "string" /\ Truthy(input.tools) THEN input.tools ELSE Undef,
   tool_choice |-> IF input.t # "string" /\ Truthy(input.tool_choice)
                   THEN input.tool_choice ELSE Undef,
   stream |-> TRUE]

\* Mutant of stream: the request is issued when the generator is created.
stream_Eager(model, input) ==
  /\ pc = "idle"
  /\ method' = "stream"
  /\ options' = [model |-> model, input |-> input]
  /\ requests' = Append(requests, Request(StreamBody(model, input)))
  /\ pc' = "streamFetch"
  /\ UNCHANGED <<auxVars, apiKey, baseUrl, received, outcome, sendVars, streamVars>>

\* stream(model, input): the generator is created; nothing runs yet.
stream(model, input) ==
  /\ pc = "idle"
  /\ method' = "stream"
  /\ options' = [model |-> model, input |-> input]
  /\ pc' = "suspendedStart"
  /\ UNCHANGED <<auxVars, apiKey, baseUrl, requests, received, outcome, sendVars, streamVars>>

\* The decode loop runs on over the lines ls up to its next suspension.
Resume(ls) ==
  LET d == Decode(ls)
  IN  CASE d.k = "yield" ->
             /\ chunks' = Append(chunks, d.chunk)
             /\ lines' = d.rest
             /\ pc' = "suspendedYield"
             /\ outcome' = outcome
        [] d.k = "return" ->
             /\ chunks' = chunks
             /\ lines' = <<>>
             /\ pc' = "done"
             /\ outcome' = Return(Undef)
        [] OTHER ->
             /\ chunks' = chunks
             /\ lines' = <<>>
             /\ pc' = "read"
             /\ outcome' = outcome

\* The consumer asks for the next chunk: the first pull issues the request,
\* a later one resumes the decode loop after the yield.
pull ==
  /\ pc \in {"suspendedStart", "suspendedYield"}
  /\ UNCHANGED <<auxVars, apiKey, baseUrl, method, options, received, sendVars, buffer,
                 reads, reader>>
  /\ consumerCalls' = Append(consumerCalls, "next")
  /\ IF pc = "suspendedStart"
     THEN /\ requests' = Append(requests, Request(StreamBody(options.model, options.input)))
          /\ pc' = "streamFetch"
          /\ UNCHANGED <<outcome, lines, chunks>>
     ELSE /\ Resume(lines)
          /\ requests' = requests

\* The consumer leaves the for await loop: return() on the generator.  A
\* generator that has not started, or is suspended at the yield, completes at
\* once; the function has no finally block, so nothing else runs.
generatorReturn ==
  /\ pc \in {"suspendedStart", "suspendedYield"}
  /\ consumerCalls' = Append(consumerCalls, "return")
  /\ pc' = "done"
  /\ outcome' = Return(Undef)
  /\ UNCHANGED <<auxVars, apiKey, baseUrl, method, options, requests, received, sendVars,
                 buffer, lines, chunks, reads, reader>>

\* _handleStreamingResponse after its fetch resolved.
streamFetchResolve(res) ==
  /\ pc = "streamFetch"
  /\ received' = Append(received, res)
  /\ UNCHANGED <<auxVars, apiKey, baseUrl, method, options, requests, sendVars, lines,
                 chunks, reads, consumerCalls>>
  /\ IF ~res.ok
     THEN /\ pc' = "done"
          /\ outcome' = Throw(ApiError(res))
          /\ UNCHANGED <<buffer, reader>>
     ELSE IF ~Truthy(res.body)
     THEN /\ pc' = "done"
          /\ outcome' = Throw(Err("Error", "Response body is null"))
          /\ UNCHANGED <<buffer, reader>>
     ELSE /\ pc' = "read"
          /\ outcome' = outcome
          /\ reader' = "locked"
          /\ buffer' = <<>>

\* Mutant of readResolve: the text after the last newline is not kept.
readResolve_NoBuffer(r) ==
  /\ pc = "read"
  /\ UNCHANGED <<auxVars, apiKey, baseUrl, method, options, requests, received, sendVars,
                 reader, consumerCalls>>
  /\ IF r.done
     THEN /\ pc' = "done"
          /\ outcome' = Return(Undef)
          /\ UNCHANGED <<buffer, lines, chunks, reads>>
     ELSE /\ Len(reads) < MaxReads
          /\ reads' = Append(reads, r.value)
          /\ LET ls == Split(r.value)
             IN  /\ buffer' = <<>>
                 /\ Resume(SubSeq(ls, 1, Len(ls) - 1))

\* Mutant of readResolve: at the end of the stream the text left in the buffer
\* is decoded as a last line.
readResolve_FlushAtEnd(r) ==
  /\ pc = "read"
  /\ UNCHANGED <<auxVars, apiKey, baseUrl, method, options, requests, received, sendVars,
                 reader, consumerCalls>>
  /\ IF r.done
     THEN IF Decode(<<buffer>>).k = "yield"
          THEN /\ Resume(<<buffer>>)
               /\ buffer' = <<>>
               /\ reads' = reads
          ELSE /\ pc' = "done"
               /\ outcome' = Return(Undef)
               /\ UNCHANGED <<buffer, lines, chunks, reads>>
     ELSE /\ Len(reads) < MaxReads
          /\ reads' = Append(reads, r.value)
          /\ LET ls == Split(buffer \o r.value)
             IN  /\ buffer' = ls[Len(ls)]
                 /\ Resume(SubSeq(ls, 1, Len(ls) - 1))

\* reader.read() resolved with r.
readResolve(r) ==
  /\ pc = "read"
  /\ UNCHANGED <<auxVars, apiKey, baseUrl, method, options, requests, received, sendVars,
                 reader, consumerCalls>>
  /\ IF r.done
     THEN /\ pc' = "done"
          /\ outcome' = Return(Undef)
          /\ UNCHANGED <<buffer, lines, chunks, reads>>
     ELSE /\ Len(reads) < MaxReads
          /\ reads' = Append(reads, r.value)
          /\ LET ls == Split(buffer \o r.value)
             IN  /\ buffer' = ls[Len(ls)]
                 /\ Resume(SubSeq(ls, 1, Len(ls) - 1))

Next ==
  \/ \E opts \in SimpleOptions \cup AdvancedOptions : send(opts)
  \/ \E res \in HttpResponses : callApiResolve(res)
  \/ \E res \in HttpResponses : sendAdvancedResolve(res)
  \/ toolCallStep
  \/ \E o \in HandlerOutcomes : handlerSettle(o)
  \/ \E i \in StreamInputs : stream("gpt-4o", i)
  \/ pull
  \/ generatorReturn
  \/ \E res \in StreamResponses : streamFetchResolve(res)
  \/ \E r \in ReadResults : readResolve(r)

Spec == Init /\ [][Next]_vars

\* ------------------------------------------------------------ properties
IsSimple == method = "send" /\ options.input.t = "string"
IsAdvanced == method = "send" /\ options.input.t = "object"

\* The tool calls of the first choice of the r-th fetch result (<<>> if none).
CallsOf(r) ==
  LET res == received[r]
      c == IF res.ok THEN res.data.choices ELSE Arr(<<>>)
      tc == IF Len(c.a) = 0 THEN Undef ELSE c.a[1].message.tool_calls
  IN  IF tc.t = "array" THEN tc.a ELSE <<>>

\* The conversation sent in round r.
Sent(r) == requests[r].body.messages

\* Round r is over: its response arrived and its tool loop has run to the end.
RoundOver(r) ==
  /\ r <= Len(received)
  /\ \/ r < Len(received)
     \/ Len(requests) > r
     \/ pc = "done"

\* C1: in simple mode, when the response of round r carries k >= 1 tool calls
\* in its first choice, the conversation sent in round r+1 is the conversation
\* sent in round r, then one assistant message echoing those calls, then k
\* tool messages whose tool_call_id are the calls' ids in call order; and every
\* tool message of every request refers to a call of an earlier assistant
\* message of that request.
C1_NextRoundConversation ==
  IsSimple =>
    /\ \A r \in 1..(Len(requests) - 1) :
         LET calls == CallsOf(r)
             k == Len(calls)
             prev == Sent(r)
             nxt == Sent(r + 1)
         IN  /\ k >= 1
             /\ Len(nxt) = Len(prev) + 1 + k
             /\ SubSeq(nxt, 1, Len(prev)) = prev
             /\ nxt[Len(prev) + 1].role = "assistant"
             /\ nxt[Len(prev) + 1].tool_calls = Arr(calls)
             /\ \A i \in 1..k :
                  /\ nxt[Len(prev) + 1 + i].role = "tool"
                  /\ nxt[Len(prev) + 1 + i].tool_call_id = Str(calls[i].id)
    /\ \A r \in 1..Len(requests) :
         \A j \in 1..Len(Sent(r)) :
           Sent(r)[j].role = "tool" =>
             \E a \in 1..(j - 1) :
               /\ Sent(r)[a].role = "assistant"
               /\ Sent(r)[a].tool_calls.t = "array"
               /\ \E i \in 1..Len(Sent(r)[a].tool_calls.a) :
                    Str(Sent(r)[a].tool_calls.a[i].id) = Sent(r)[j].tool_call_id

\* C1 witness: a second round was requested after a response with two calls.
C1_Witness ==
  /\ IsSimple
  /\ Len(requests) >= 2
  /\ Len(CallsOf(1)) = 2
  /\ Len(Sent(2)) = 4

\* C2 (as claimed): in simple mode with no tools supplied and a cap of at
\* least one round, send performs one network request only and returns the
\* first response whatever it contains, tool calls included.
C2_NoToolsOneRound ==
  (IsSimple /\ options.tools = Undef /\ MaxToolIterations(options) >= 1) =>
    /\ Len(requests) = 1
    /\ (Len(received) >= 1 /\ received[1].ok) =>
         /\ pc = "done"
         /\ outcome = Return(SendResponse(received[1].data.choices,
                                          received[1].data.usage))

\* Every response so far was OK and carried tool calls in its first choice.
AllToolCalls == \A r \in 1..Len(received) : received[r].ok /\ Len(CallsOf(r)) >= 1

\* C3: in simple mode with maxToolIterations = N >= 1, as long as every
\* response carries tool calls the call never returns a response and never
\* issues more than N requests; once the N-th round's tool loop has ended the
\* call has failed with the 'Max tool iterations' error, after exactly N requests.
C3_IterationLimit ==
  (IsSimple /\ MaxToolIterations(options) >= 1 /\ AllToolCalls) =>
    LET N == MaxToolIterations(options)
    IN  /\ outcome = Undef \/ outcome.k = "throw"
        /\ Len(requests) <= N
        /\ pc = "done" =>
             /\ Len(requests) = N
             /\ Len(received) = N
             /\ outcome.v.t = "error"
             /\ outcome.v.message = "Max tool iterations (" \o ToString(N) \o ") reached"
        /\ (Len(received) = N /\ pc \notin {"tool", "handler"}) => pc = "done"

\* C3 witness: the cap of two rounds was hit after two tool-call responses.
C3_Witness ==
  /\ IsSimple
  /\ MaxToolIterations(options) = 2
  /\ AllToolCalls
  /\ Len(received) = 2
  /\ pc = "done"
  /\ outcome.k = "throw"

\* The names of the tools supplied to the call.
ToolNames ==
  IF Nullish(options.tools) THEN {}
  ELSE { options.tools.a[j].name : j \in 1..Len(options.tools.a) }

\* Where the tool message of call i of round r stands in the conversation.
ToolMsgPos(r, i) == Len(Sent(r)) + 1 + i

\* The handler invocations made for call i of round r.
InvocationsFor(r, i) ==
  { e \in 1..Len(invoked) : invoked[e].round = r /\ invoked[e].index = i }

\* The tool loop of round r ran to its end and the loop went on: every call
\* has its tool message and, below the cap, the next request was issued.
RoundCompleted(r) ==
  /\ Len(messages) >= ToolMsgPos(r, Len(CallsOf(r)))
  /\ \A i \in 1..Len(CallsOf(r)) :
       /\ messages[ToolMsgPos(r, i)].role = "tool"
       /\ messages[ToolMsgPos(r, i)].tool_call_id = Str(CallsOf(r)[i].id)
  /\ r < MaxToolIterations(options) => Len(requests) >= r + 1

\* The failures a call can end with.
CallFailures ==
  { "Max tool iterations (" \o ToString(MaxToolIterations(options)) \o ") reached",
    "API error 401: Unauthorized",
    "API error 500: Internal Server Error" }

\* C4: in simple mode, for a tool call whose name is not in the call's tool
\* set, no handler is invoked for it, its tool message is the serialized
\* {error: "Unknown tool: <name>"}, and the loop goes on: once the round is
\* over every call of the round has its tool message and, below the cap, the
\* next round's request was issued.
C4_UnknownTool ==
  IsSimple =>
    \A r \in 1..Len(received) :
      \A i \in 1..Len(CallsOf(r)) :
        LET call == CallsOf(r)[i]
        IN  call.function.name \notin ToolNames =>
              /\ InvocationsFor(r, i) = {}
              /\ Len(messages) >= ToolMsgPos(r, i) =>
                   /\ messages[ToolMsgPos(r, i)].role = "tool"
                   /\ messages[ToolMsgPos(r, i)].tool_call_id = Str(call.id)
                   /\ messages[ToolMsgPos(r, i)].content =
                        Str("{\"error\":\"Unknown tool: " \o call.function.name \o "\"}")
              /\ (r < Len(received) \/ tcIndex > i) => Len(messages) >= ToolMsgPos(r, i)
              /\ RoundOver(r) => RoundCompleted(r)

\* C4 witness: with a tool registered, an unknown call came first of two, both
\* got their tool message and the next round was requested.
C4_Witness ==
  /\ IsSimple
  /\ ToolNames # {}
  /\ Len(requests) = 2
  /\ Len(CallsOf(1)) = 2
  /\ CallsOf(1)[1].function.name \notin ToolNames
  /\ messages[3].content = Str("{\"error\":\"Unknown tool: get_time\"}")
  /\ Len(invoked) = 1

\* The texts of the {error: ...} results of failed calls.
ErrorContents ==
  { Str("{\"error\":\"Tool execution failed: Unexpected end of JSON input\"}"),
    Str("{\"error\":\"Invalid arguments: Expected string, received number\"}"),
    Str("{\"error\":\"Tool execution failed: boom\"}"),
    Str("{\"error\":\"Tool execution failed\"}") }

\* Call i of round r names a supplied tool and failed: its argument text does
\* not parse, the schema rejects its arguments, or its handler threw.
CallFailed(r, i) ==
  LET call == CallsOf(r)[i]
  IN  /\ call.function.name \in ToolNames
      /\ \/ call.function.arguments \in {ArgsMalformed, ArgsWrongType}
         \/ \E e \in InvocationsFor(r, i) : e <= Len(settled) /\ settled[e].k = "throw"

\* C5: in simple mode a failed tool call never fails send: the call fails
\* only with the iteration-limit or an API error; the failed call's tool
\* message is an {error: ...} text; and once the round is over every call of
\* the round has its tool message, in call order, and below the cap the next
\* round's request was issued.
C5_ToolFailuresContained ==
  IsSimple =>
    /\ (outcome # Undef /\ outcome.k = "throw") =>
         /\ outcome.v.t = "error"
         /\ outcome.v.message \in CallFailures
    /\ \A r \in 1..Len(received) :
         \A i \in 1..Len(CallsOf(r)) :
           CallFailed(r, i) =>
             /\ (r < Len(received) \/ tcIndex > i) => Len(messages) >= ToolMsgPos(r, i)
             /\ Len(messages) >= ToolMsgPos(r, i) =>
                  /\ messages[ToolMsgPos(r, i)].role = "tool"
                  /\ messages[ToolMsgPos(r, i)].tool_call_id = Str(CallsOf(r)[i].id)
                  /\ messages[ToolMsgPos(r, i)].content \in ErrorContents
             /\ RoundOver(r) => RoundCompleted(r)

\* C5 witness: the first call's handler threw, the second call's arguments did
\* not parse, and the next round was still requested.
C5_Witness ==
  /\ IsSimple
  /\ Len(requests) = 2
  /\ Len(CallsOf(1)) = 2
  /\ CallFailed(1, 1)
  /\ CallFailed(1, 2)
  /\ Len(settled) = 1
  /\ settled[1].k = "throw"

\* The r-th fetch result carried a usage object.
CarriedUsage(r) == received[r].ok /\ received[r].data.usage.t = "object"

\* The sum of usage field f over the first n fetch results.
RECURSIVE SumUsage(_, _)
SumUsage(f, n) ==
  IF n = 0 THEN 0
  ELSE SumUsage(f, n - 1) + (IF CarriedUsage(n) THEN received[n].data.usage[f] ELSE 0)

ScalarFields == {"prompt_tokens", "completion_tokens", "total_tokens"}

\* u is the field-wise total of the usages received so far: undefined when
\* none was received.
IsUsageTotal(u) ==
  IF \E r \in 1..Len(received) : CarriedUsage(r)
  THEN /\ u.t = "object"
       /\ \A f \in ScalarFields : u[f] = SumUsage(f, Len(received))
  ELSE u = Undef

\* C6: in simple mode, at every point the accumulated usage is undefined if no
\* response so far carried usage and otherwise has, in each scalar field, the
\* sum of that field over the responses that carried usage; the returned
\* usage is that total, hence undefined exactly when no response carried usage.
C6_UsageIsSum ==
  IsSimple =>
    /\ IsUsageTotal(totalUsage)
    /\ (pc = "done" /\ outcome.k = "return") => IsUsageTotal(outcome.v.usage)

\* C6 witness: two rounds reported different usages, summed on return.
C6_Witness ==
  /\ IsSimple
  /\ Len(received) = 2
  /\ CarriedUsage(1) /\ CarriedUsage(2)
  /\ received[1].data.usage # received[2].data.usage
  /\ pc = "done"
  /\ outcome.k = "return"
  /\ outcome.v.usage.total_tokens = 22

\* C8: a response to send whose choices array is empty ends the call (simple
\* or advanced mode) at once and normally: no request follows it (one request in
\* all when it is the first response), and the returned response's text,
\* message, finishReason and toolCalls are all null.
C8_EmptyChoices ==
  \A r \in 1..Len(received) :
    (method = "send" /\ received[r].ok /\ received[r].data.choices = Arr(<<>>)) =>
      /\ r = Len(received)
      /\ Len(requests) = r
      /\ pc = "done"
      /\ outcome.k = "return"
      /\ outcome.v.choices = Arr(<<>>)
      /\ text(outcome.v) = Null
      /\ message(outcome.v) = Null
      /\ finishReason(outcome.v) = Null
      /\ toolCalls(outcome.v) = Null

\* C8 witness: a simple-mode call returned on a first response without choices.
C8_Witness ==
  /\ IsSimple
  /\ Len(requests) = 1
  /\ Len(received) = 1
  /\ received[1].ok
  /\ received[1].data.choices = Arr(<<>>)
  /\ pc = "done"

\* C9: in simple mode, a response whose first choice exists and carries no
\* tool calls (absent or empty) ends the call at once: no request follows, and
\* the call returns that response's whole choices list with the usage total
\* of all rounds.
C9_FinalResponse ==
  IsSimple =>
    \A r \in 1..Len(received) :
      (received[r].ok /\ Len(received[r].data.choices.a) >= 1 /\ CallsOf(r) = <<>>) =>
        /\ r = Len(received)
        /\ Len(requests) = r
        /\ pc = "done"
        /\ outcome.k = "return"
        /\ outcome.v.choices = received[r].data.choices
        /\ IsUsageTotal(outcome.v.usage)

\* C9 witness: the second round's response has two choices, the first without
\* tool calls; both rounds reported usage.
C9_Witness ==
  /\ IsSimple
  /\ Len(received) = 2
  /\ pc = "done"
  /\ outcome.k = "return"
  /\ Len(outcome.v.choices.a) = 2
  /\ received[1].data.usage = UsageA
  /\ received[2].data.usage = UsageB
  /\ outcome.v.usage.prompt_tokens = 13

\* C10: in advanced mode send issues one request only, whose body carries the
\* caller's messages unchanged and tools / tool_choice exactly when supplied;
\* no handler is invoked, no conversation is built, and an OK response is
\* returned as it is, tool calls included.
C10_AdvancedPassthrough ==
  IsAdvanced =>
    /\ Len(requests) = 1
    /\ requests[1].body.model = options.model
    /\ requests[1].body.messages = options.input.messages
    /\ requests[1].body.tools = options.input.tools
    /\ requests[1].body.tool_choice = options.input.tool_choice
    /\ invoked = <<>>
    /\ messages = <<>>
    /\ (Len(received) = 1 /\ received[1].ok) =>
         /\ pc = "done"
         /\ outcome = Return([choices |-> received[1].data.choices,
                              usage |-> received[1].data.usage])

\* C10 witness: an advanced call with tools and tool_choice returned a
\* response that carries tool calls.
C10_Witness ==
  /\ IsAdvanced
  /\ options.input.tools # Undef
  /\ options.input.tool_choice # Undef
  /\ pc = "done"
  /\ outcome.k = "return"
  /\ Len(CallsOf(1)) = 2

\* C7: a non-OK network response fails the call (send in simple or advanced
\* mode, stream) in the round where it arrives, with the error
\* 'API error <status>: <body>'; no request follows it, no handler is invoked
\* in or after that round, and stream yields no chunk.
C7_ApiErrorIsFatal ==
  \A r \in 1..Len(received) :
    ~received[r].ok =>
      /\ r = Len(received)
      /\ Len(requests) = r
      /\ pc = "done"
      /\ outcome.k = "throw"
      /\ outcome.v.t = "error"
      /\ outcome.v.class = "Error"
      /\ outcome.v.message =
           (IF received[r].status = 401
            THEN "API error 401: Unauthorized"
            ELSE "API error 500: Internal Server Error")
      /\ \A e \in 1..Len(invoked) : invoked[e].round < r
      /\ Len(settled) = Len(invoked)
      /\ chunks = <<>>
      /\ reads = <<>>

\* C7 witness: in simple mode the second round's response was non-OK, after
\* a first round whose handler ran.
C7_Witness ==
  /\ IsSimple
  /\ Len(received) = 2
  /\ ~received[2].ok
  /\ Len(invoked) = 1
  /\ pc = "done"

\* C11 (as claimed): a simple-mode send given an empty tool list behaves as
\* the same send given no tools: its first request has the body the call
\* without tools sends, it makes that one request only, and it returns the
\* first OK response as it is.
C11_EmptyToolsAsNoTools ==
  (IsSimple /\ options.tools = Arr(<<>>) /\ MaxToolIterations(options) >= 1) =>
    /\ requests[1].body =
         CallApiBody(options.model, <<UserMessage(options.input.s)>>, OpenAiTools(Undef))
    /\ Len(requests) = 1
    /\ (Len(received) >= 1 /\ received[1].ok) =>
         /\ pc = "done"
         /\ outcome = Return(SendResponse(received[1].data.choices,
                                          received[1].data.usage))

\* ------------------------------------------------------------ stream properties
IsStream == method = "stream"

\* The whole text read so far.
RECURSIVE Concat(_)
Concat(ss) == IF ss = <<>> THEN <<>> ELSE Head(ss) \o Concat(Tail(ss))

\* The lines of txt that are complete: ended by a newline.
CompleteLines(txt) == LET ls == Split(txt) IN SubSeq(ls, 1, Len(ls) - 1)

\* The payloads of the data frames among the lines ls, in order.
RECURSIVE Payloads(_)
Payloads(ls) ==
  IF ls = <<>> THEN <<>>
  ELSE LET tr == Trim(Head(ls))
       IN  IF tr # <<>> /\ tr[1] = DataPrefix
           THEN <<Tail(tr)>> \o Payloads(Tail(ls))
           ELSE Payloads(Tail(ls))

\* The data frames that arrived in the first n reads.
FramesIn(n) == Payloads(CompleteLines(Concat(SubSeq(reads, 1, n))))

IsDone(p) == p = <<DoneToken>>

\* The termination token arrived in the first n reads.
DoneSeenIn(n) == \E j \in 1..Len(FramesIn(n)) : IsDone(FramesIn(n)[j])

\* The frames that arrived before the first termination token.
FramesBeforeDone ==
  LET fs == FramesIn(Len(reads))
  IN  IF \E j \in 1..Len(fs) : IsDone(fs[j])
      THEN SubSeq(fs, 1, (CHOOSE j \in 1..Len(fs) :
                            IsDone(fs[j]) /\ \A h \in 1..(j - 1) : ~IsDone(fs[h])) - 1)
      ELSE fs

\* A well-formed frame carries the JSON text of a chunk object.
WellFormed(p) == p \in { <<HiA, HiB>>, <<StopJson>> }

\* A frame whose payload is not valid JSON.
Malformed(p) == ~WellFormed(p) /\ ~IsDone(p) /\ p # <<NullJson>>

\* The chunk a well-formed frame decodes to.
ChunkOf(p) ==
  IF p = <<StopJson>>
  THEN [choices |-> Arr(<<[t |-> "object", index |-> 0, delta |-> [t |-> "object"],
                           finish_reason |-> Str("stop")]>>)]
  ELSE [choices |-> Arr(<<[t |-> "object", index |-> 0,
                           delta |-> [t |-> "object", content |-> Str("Hi")],
                           finish_reason |-> Null]>>)]

\* How many of the first n frames of fs are well-formed.
RECURSIVE WellFormedUpTo(_, _)
WellFormedUpTo(fs, n) ==
  IF n = 0 THEN 0
  ELSE WellFormedUpTo(fs, n - 1) + (IF WellFormed(fs[n]) THEN 1 ELSE 0)

\* The consumer gave the sequence up.
Abandoned == \E i \in 1..Len(consumerCalls) : consumerCalls[i] = "return"

\* Everything that arrived was decoded: the generator waits for the next read,
\* or ended by itself.
Drained ==
  \/ pc = "read"
  \/ pc = "done" /\ ~Abandoned /\ reads # <<>>

\* C12: a data frame whose payload is not valid JSON raises no error and
\* yields no chunk, and does not end the sequence: once everything that arrived
\* is decoded, every well-formed frame after it (and before the termination
\* token) has its chunk, at the position given by the well-formed frames alone.
C12_MalformedSkipped ==
  IsStream =>
    LET fs == FramesBeforeDone
    IN  \A j \in 1..Len(fs) :
          Malformed(fs[j]) =>
            /\ outcome = Undef \/ outcome = Return(Undef)
            /\ Len(chunks) <= WellFormedUpTo(fs, Len(fs))
            /\ Drained =>
                 /\ Len(chunks) = WellFormedUpTo(fs, Len(fs))
                 /\ \A k \in (j + 1)..Len(fs) :
                      WellFormed(fs[k]) => chunks[WellFormedUpTo(fs, k)] = ChunkOf(fs[k])

\* C12 witness: a read carried a malformed frame and then a well-formed one;
\* one chunk was yielded and the generator reads on.
C12_Witness ==
  /\ IsStream
  /\ reads = << <<DataPrefix, BadJson, NL, NL, DataPrefix, StopJson, NL>> >>
  /\ chunks = <<ChunkOf(<<StopJson>>)>>
  /\ pc = "read"

\* The chunks of the well-formed frames among fs, in order.
RECURSIVE ChunksOf(_)
ChunksOf(fs) ==
  IF fs = <<>> THEN <<>>
  ELSE IF WellFormed(Head(fs))
  THEN <<ChunkOf(Head(fs))>> \o ChunksOf(Tail(fs))
  ELSE ChunksOf(Tail(fs))

\* C13: the chunks yielded are, in arrival order, the chunks of the
\* well-formed data frames that arrived before the termination token, one
\* each: never more, and all of them once everything that arrived is decoded.
\* After the termination token nothing is read and, once the chunks before it
\* are taken, the sequence has ended normally.
C13_OneChunkPerFrame ==
  IsStream =>
    LET expected == ChunksOf(FramesBeforeDone)
    IN  /\ Len(chunks) <= Len(expected)
        /\ \A i \in 1..Len(chunks) : chunks[i] = expected[i]
        /\ Drained => chunks = expected
        /\ DoneSeenIn(Len(reads)) =>
             /\ ~DoneSeenIn(Len(reads) - 1)
             /\ pc \in {"suspendedYield", "done"}
             /\ pc = "done" => outcome = Return(Undef)

\* C13 witness: a frame with content and a frame with an empty delta were
\* yielded in order; the third read began with the termination token followed
\* by a frame, and the sequence ended with the two chunks.
C13_Witness ==
  /\ IsStream
  /\ Len(reads) = 3
  /\ reads[3] = <<DataPrefix, DoneToken, NL, NL, DataPrefix, HiA, HiB, NL, NL>>
  /\ chunks = <<ChunkOf(<<HiA, HiB>>), ChunkOf(<<StopJson>>)>>
  /\ ~Abandoned
  /\ pc = "done"

\* C14 (as claimed): once the consumer has abandoned the sequence before its
\* end, the reader obtained from the response body, if any, is cancelled or
\* released, and no tool handler is invoked.
C14_AbandonClosesStream ==
  (IsStream /\ Abandoned) =>
    /\ reader \in {"none", "cancelled", "released"}
    /\ invoked = <<>>

\* How many times the consumer asked for the next chunk.
RECURSIVE CountNext(_)
CountNext(cs) ==
  IF cs = <<>> THEN 0
  ELSE (IF Head(cs) = "next" THEN 1 ELSE 0) + CountNext(Tail(cs))

Pulls == CountNext(consumerCalls)

\* C16: stream is pull-driven.  Before the consumer's first pull no request
\* is issued and nothing is read; a non-OK status fails that first pull; no
\* chunk is produced that was not asked for; and while the request or a read
\* of the response stream is outstanding, a pull is pending (one more pull
\* than chunks) and no line of an earlier read is left to decode.
C16_PullDriven ==
  IsStream =>
    /\ Pulls = 0 => (requests = <<>> /\ received = <<>> /\ reads = <<>>)
    /\ (Len(received) >= 1 /\ ~received[1].ok) =>
         /\ Pulls = 1
         /\ pc = "done"
         /\ outcome.k = "throw"
         /\ outcome.v.message \in { "API error 401: Unauthorized",
                                    "API error 500: Internal Server Error" }
    /\ Len(chunks) <= Pulls
    /\ pc \in {"streamFetch", "read"} =>
         /\ Pulls = Len(chunks) + 1
         /\ lines = <<>>
    /\ pc = "suspendedYield" => Pulls = Len(chunks)

\* C16 witness: the second pull found no decoded line left and started the
\* second read.
C16_Witness ==
  /\ IsStream
  /\ consumerCalls = <<"next", "next">>
  /\ Len(chunks) = 1
  /\ Len(reads) = 1
  /\ pc = "read"

\* ------------------------------------------------------------ tool-augmented streaming
\* The streaming call given tools (examples/stream_tools.ts calls it as
\* edgee.stream({model, input, tools})): the client's source has the plain
\* stream only, so this part follows the specification's section on the
\* streaming event multiplexer.

\* A tool call fragment of a delta: id and name come with the first fragment
\* of an index, the argument text in pieces.
Fragment(index, id, name, arguments) ==
  [index |-> index, id |-> id, name |-> name, arguments |-> arguments]

\* The decoded frames of a round's stream.
ContentFrame == [content |-> Str("Hi"), tool_calls |-> <<>>]
WeatherFrame1 ==
  [content |-> Undef,
   tool_calls |-> <<Fragment(0, Str("call_1"), Str("get_weather"), "{\"location\":")>>]
WeatherFrame2 ==
  [content |-> Undef, tool_calls |-> <<Fragment(0, Undef, Undef, "\"Paris\"}")>>]
TimeFrame(index) ==
  [content |-> Undef,
   tool_calls |-> <<Fragment(index, Str("call_2"), Str("get_time"), "{}")>>]

\* What a round's stream carries before it ends.
RoundStreams ==
  { <<>>,
    <<ContentFrame>>,
    <<ContentFrame, WeatherFrame1, WeatherFrame2>>,
    <<WeatherFrame1, TimeFrame(1), WeatherFrame2>>,
    <<WeatherFrame1>>,
    <<TimeFrame(0)>> }

StreamToolsOptions ==
  { [model |-> "devstral2", input |-> Str("What is the weather in Paris?"),
     tools |-> Arr(<<WeatherTool>>), maxToolIterations |-> Num(n)] : n \in 1..MaxIter }

\* Reassembly of the tool calls by index: a fragment of a new index opens a
\* call, a fragment of a known index extends its argument text.
MergeFragment(acc, f) ==
  IF f.index + 1 <= Len(acc)
  THEN [acc EXCEPT ![f.index + 1].function.arguments = @ \o f.arguments]
  ELSE Append(acc, ToolCall(f.id.s, f.name.s, f.arguments))

RECURSIVE MergeFragments(_, _)
MergeFragments(acc, fs) ==
  IF fs = <<>> THEN acc
  ELSE MergeFragments(MergeFragment(acc, Head(fs)), Tail(fs))

\* The events of the sequence.
ChunkEvent(round, chunk) == [type |-> "chunk", round |-> round, chunk |-> chunk]
ToolStartEvent(round, toolCall) ==
  [type |-> "tool_start", round |-> round, toolCall |-> toolCall]
ToolResultEvent(round, toolCall, result) ==
  [type |-> "tool_result", round |-> round, toolCallId |-> toolCall.id,
   toolName |-> toolCall.function.name, result |-> result]
IterationCompleteEvent(round) ==
  [type |-> "iteration_complete", round |-> round, iteration |-> round]

\* The frames of the current round that arrived so far.
RECURSIVE FramesOf(_, _)
FramesOf(evs, round) ==
  IF evs = <<>> THEN <<>>
  ELSE IF Head(evs).type = "chunk" /\ Head(evs).round = round
  THEN <<Head(evs).chunk>> \o FramesOf(Tail(evs), round)
  ELSE FramesOf(Tail(evs), round)

IsPrefixOf(a, b) == Len(a) <= Len(b) /\ SubSeq(b, 1, Len(a)) = a

\* The request body of a round's stream.
StreamToolsBody(model, msgs, tools) ==
  [model |-> model, messages |-> msgs,
   tools |-> IF Truthy(tools) THEN tools ELSE Undef,
   tool_choice |-> Undef, stream |-> TRUE]

\* What the streaming actions leave alone.
streamToolsFixed ==
  <<apiKey, baseUrl, totalUsage, response, received, streamVars, env, config, inflight,
    probe>>

\* The head of the streaming loop: the next round's stream is opened, or the
\* round cap is reached.
OpenRound(opts, msgs, iters, tools) ==
  IF iters < MaxToolIterations(opts)
  THEN /\ iterations' = iters + 1
       /\ requests' = Append(requests, Request(StreamToolsBody(opts.model, msgs, tools)))
       /\ accum' = <<>>
       /\ pc' = "roundStream"
       /\ outcome' = outcome
  ELSE /\ iterations' = iters
       /\ requests' = requests
       /\ accum' = accum
       /\ pc' = "done"
       /\ outcome' = Throw(MaxIterationsError(opts))

\* stream(options) with tools: the first round's stream is opened.
streamTools(opts) ==
  /\ pc = "idle"
  /\ method' = "streamTools"
  /\ options' = opts
  /\ messages' = <<UserMessage(opts.input.s)>>
  /\ openAiTools' = OpenAiTools(opts.tools)
  /\ toolMap' = ToolMap(opts.tools)
  /\ OpenRound(opts, <<UserMessage(opts.input.s)>>, 0, OpenAiTools(opts.tools))
  /\ UNCHANGED <<tcIndex, invoked, settled, events, streamToolsFixed>>

\* A frame of the round's stream arrives: its content event is yielded and
\* its tool call fragments are merged.
frameArrives(f) ==
  /\ pc = "roundStream"
  /\ \E s \in RoundStreams : IsPrefixOf(Append(FramesOf(events, iterations), f), s)
  /\ events' = Append(events, ChunkEvent(iterations, f))
  /\ accum' = MergeFragments(accum, f.tool_calls)
  /\ UNCHANGED <<method, pc, options, messages, openAiTools, toolMap, iterations,
                 tcIndex, requests, invoked, settled, outcome, streamToolsFixed>>

\* The round's stream ends: without tool calls the sequence ends; otherwise
\* the assistant message is recorded and the tool phase begins.
roundStreamEnds ==
  /\ pc = "roundStream"
  /\ FramesOf(events, iterations) \in RoundStreams
  /\ UNCHANGED <<method, options, openAiTools, toolMap, iterations, requests,
                 invoked, settled, events, accum, streamToolsFixed>>
  /\ IF accum = <<>>
     THEN /\ pc' = "done"
          /\ outcome' = Return(Undef)
          /\ UNCHANGED <<messages, tcIndex>>
     ELSE /\ messages' = Append(messages,
                           [role |-> "assistant", content |-> Undef,
                            tool_calls |-> Arr(accum), tool_call_id |-> Undef])
          /\ tcIndex' = 1
          /\ pc' = "toolStart"
          /\ outcome' = outcome

\* The tool-started event of call tcIndex is yielded.
toolStart ==
  /\ pc = "toolStart"
  /\ events' = Append(events, ToolStartEvent(iterations, accum[tcIndex]))
  /\ pc' = "toolExecute"
  /\ UNCHANGED <<method, options, messages, openAiTools, toolMap, iterations,
                 tcIndex, requests, invoked, settled, accum, outcome, streamToolsFixed>>

\* Mutant of ToolFinished: the next call is executed without its tool-started
\* event.
ToolFinished_NoNextStart(result) ==
  /\ events' = Append(events, ToolResultEvent(iterations, accum[tcIndex], result))
  /\ messages' = Append(messages, ToolMessage(accum[tcIndex], result))
  /\ IF tcIndex < Len(accum)
     THEN /\ tcIndex' = tcIndex + 1
          /\ pc' = "toolExecute"
     ELSE /\ tcIndex' = tcIndex
          /\ pc' = "roundComplete"

\* The call is resolved with result: its tool-finished event is yielded, its
\* tool message recorded, and the next call or the end of the round follows.
ToolFinished(result) ==
  /\ events' = Append(events, ToolResultEvent(iterations, accum[tcIndex], result))
  /\ messages' = Append(messages, ToolMessage(accum[tcIndex], result))
  /\ IF tcIndex < Len(accum)
     THEN /\ tcIndex' = tcIndex + 1
          /\ pc' = "toolStart"
     ELSE /\ tcIndex' = tcIndex
          /\ pc' = "roundComplete"

\* After the tool-started event: an unknown tool, argument text that does not
\* parse and arguments the schema rejects are resolved at once with their
\* error result; otherwise the handler is invoked.
toolExecute ==
  /\ pc = "toolExecute"
  /\ UNCHANGED <<method, options, openAiTools, toolMap, iterations, requests,
                 settled, accum, outcome, streamToolsFixed>>
  /\ LET toolCall == accum[tcIndex]
         tool == MapGet(toolMap, toolCall.function.name)
         rawArgs == JSONParse(toolCall.function.arguments)
     IN  IF tool = Undef
         THEN /\ ToolFinished(UnknownToolResult(toolCall.function.name))
              /\ invoked' = invoked
         ELSE IF ~rawArgs.ok
         THEN /\ ToolFinished(CatchResult(rawArgs.err))
              /\ invoked' = invoked
         ELSE LET parsedArgs == SchemaParse(tool.schema, rawArgs.value)
              IN  IF ~parsedArgs.ok
                  THEN /\ ToolFinished(CatchResult(parsedArgs.err))
                       /\ invoked' = invoked
                  ELSE /\ invoked' = Append(invoked,
                            [hid |-> tool.hid, args |-> parsedArgs.value,
                             id |-> toolCall.id, index |-> tcIndex,
                             round |-> iterations, at |-> Len(events)])
                       /\ pc' = "toolHandler"
                       /\ UNCHANGED <<messages, tcIndex, events>>

\* The awaited handler settled with o.
toolSettle(o) ==
  /\ pc = "toolHandler"
  /\ settled' = Append(settled, o)
  /\ ToolFinished(IF o.k = "return" THEN o.v ELSE CatchResult(o.v))
  /\ UNCHANGED <<method, options, openAiTools, toolMap, iterations, requests,
                 invoked, accum, outcome, streamToolsFixed>>

\* All calls of the round are resolved: the round-complete event is yielded
\* and the next round's stream is opened, unless the cap is reached.
iterationComplete ==
  /\ pc = "roundComplete"
  /\ events' = Append(events, IterationCompleteEvent(iterations))
  /\ OpenRound(options, messages, iterations, openAiTools)
  /\ UNCHANGED <<method, options, messages, openAiTools, toolMap, tcIndex,
                 invoked, settled, streamToolsFixed>>

NextStreamTools ==
  \/ \E opts \in StreamToolsOptions : streamTools(opts)
  \/ \E f \in {ContentFrame, WeatherFrame1, WeatherFrame2, TimeFrame(0), TimeFrame(1)} :
       frameArrives(f)
  \/ roundStreamEnds
  \/ toolStart
  \/ toolExecute
  \/ \E o \in HandlerOutcomes : toolSettle(o)
  \/ iterationComplete

SpecStreamTools == Init /\ [][NextStreamTools]_vars

\* ------------------------------------------------------------ tool-augmented streaming: properties
IsStreamTools == method = "streamTools"

\* The tool events of round r, in order.
RECURSIVE ToolEventsOf(_, _)
ToolEventsOf(evs, r) ==
  IF evs = <<>> THEN <<>>
  ELSE IF Head(evs).round = r /\ Head(evs).type \in {"tool_start", "tool_result"}
  THEN <<Head(evs)>> \o ToolEventsOf(Tail(evs), r)
  ELSE ToolEventsOf(Tail(evs), r)

\* The tool calls of round r: the fragments of its frames, by index.
RECURSIVE CallsOfFrames(_, _)
CallsOfFrames(acc, fs) ==
  IF fs = <<>> THEN acc
  ELSE CallsOfFrames(MergeFragments(acc, Head(fs).tool_calls), Tail(fs))

RoundCalls(r) == CallsOfFrames(<<>>, FramesOf(events, r))

\* Where the round-complete events of round r stand.
CompletePos(r) ==
  { p \in 1..Len(events) : events[p].type = "iteration_complete" /\ events[p].round = r }

\* C15: (a) events come round by round and within a round every content
\* chunk precedes every other event; (b) the tool events of a round are, call
\* by call in call order, the tool_start event of the call and then its
\* tool_result event; (c) a handler is invoked right after its call's
\* tool_start event, no event is yielded while it runs, and the next event is
\* the call's tool_result carrying what the handler gave; (d) a round has at
\* most one iteration_complete event, which carries the round number, follows
\* both events of every call of the round and precedes every event of later
\* rounds, and every round that was followed by another has one; (e) a
\* sequence that ends normally ends with a round without tool events.
C15_StreamToolEvents ==
  IsStreamTools =>
    /\ \A p, q \in 1..Len(events) :
         p < q =>
           /\ events[p].round <= events[q].round
           /\ (events[q].type = "chunk" /\ events[p].round = events[q].round) =>
                events[p].type = "chunk"
    /\ \A r \in 1..iterations :
         LET tev == ToolEventsOf(events, r)
             rc == RoundCalls(r)
         IN  /\ Len(tev) <= 2 * Len(rc)
             /\ \A k \in 1..Len(tev) :
                  IF k % 2 = 1
                  THEN tev[k] = ToolStartEvent(r, rc[(k + 1) \div 2])
                  ELSE /\ tev[k].type = "tool_result"
                       /\ tev[k].toolCallId = rc[k \div 2].id
                       /\ tev[k].toolName = rc[k \div 2].function.name
             /\ Cardinality(CompletePos(r)) <= 1
             /\ r < iterations => Cardinality(CompletePos(r)) = 1
             /\ \A p \in CompletePos(r) :
                  /\ events[p].iteration = r
                  /\ Len(rc) >= 1
                  /\ Len(tev) = 2 * Len(rc)
                  /\ \A q \in 1..Len(events) :
                       (events[q].round = r /\ q # p) => q < p
                  /\ \A q \in 1..Len(events) : q > p => events[q].round > r
    /\ \A e \in 1..Len(invoked) :
         LET at == invoked[e].at
         IN  /\ events[at].type = "tool_start"
             /\ events[at].toolCall.id = invoked[e].id
             /\ events[at].round = invoked[e].round
             /\ e > Len(settled) => Len(events) = at
             /\ e <= Len(settled) =>
                  /\ events[at + 1].type = "tool_result"
                  /\ events[at + 1].toolCallId = invoked[e].id
                  /\ events[at + 1].result =
                       (IF settled[e].k = "return" THEN settled[e].v
                        ELSE CatchResult(settled[e].v))
    /\ (pc = "done" /\ outcome.k = "return") =>
         /\ ToolEventsOf(events, iterations) = <<>>
         /\ CompletePos(iterations) = {}
         /\ RoundCalls(iterations) = <<>>

\* C15 witness: a first round with three chunks and two calls, a handler run
\* for the first and none for the second, its round-complete event, and a
\* second round with one chunk and no tool call, which ended the sequence.
C15_Witness ==
  /\ IsStreamTools
  /\ Len(events) = 9
  /\ events[4].type = "tool_start"
  /\ events[5].type = "tool_result"
  /\ events[6].type = "tool_start"
  /\ events[7].type = "tool_result"
  /\ events[8] = IterationCompleteEvent(1)
  /\ events[9] = ChunkEvent(2, ContentFrame)
  /\ Len(invoked) = 1
  /\ pc = "done"
  /\ outcome = Return(Undef)

\* ------------------------------------------------------------ concurrent sends
\* Two simple-mode sends on the same client, interleaved at their awaits.
\* The locals of sendSimple (messages, openAiTools, toolMap, iterations,
\* totalUsage, response) live in one record per call; the client holds
\* apiKey and baseUrl only.
Callers == {"a", "b"}

\* Each caller's options: the tools have the same name and different handlers.
OptionsOf(c) ==
  IF c = "a"
  THEN [model |-> "gpt-4o", input |-> Str("Weather in Paris?"),
        tools |-> Arr(<<WeatherTool>>), maxToolIterations |-> Num(MaxIter)]
  ELSE [model |-> "gpt-4o-mini", input |-> Str("Weather in Rome?"),
        tools |-> Arr(<<WeatherTool2>>), maxToolIterations |-> Num(MaxIter)]

\* What fetch resolves with for a request of caller c.
ResponsesOf(c) ==
  LET u == IF c = "a" THEN UsageA ELSE UsageB
  IN  { [ok |-> TRUE, status |-> 200, text |-> "",
         data |-> [choices |-> Arr(<<Choice(0, Str("Done " \o c), Undef, Str("stop"))>>),
                   usage |-> u]],
        [ok |-> TRUE, status |-> 200, text |-> "",
         data |-> [choices |-> Arr(<<Choice(0, Null,
                                   Arr(<<ToolCall("call_" \o c, "get_weather", ArgsGood)>>),
                                   Str("tool_calls"))>>),
                   usage |-> u]] }

\* inflight with the record of call c replaced by rec.
WithCall(c, rec) ==
  [x \in (DOMAIN inflight) \cup {c} |-> IF x = c THEN rec ELSE inflight[x]]

\* The head of the loop of a call whose record is rec: the next round's
\* request, or the iteration-limit failure.
LoopHeadOf(rec) ==
  IF rec.iterations < MaxToolIterations(rec.options)
  THEN [rec EXCEPT
          !.iterations = @ + 1,
          !.requests = Append(@, Request(CallApiBody(rec.options.model, rec.messages,
                                                     rec.openAiTools))),
          !.pc = "fetch"]
  ELSE [rec EXCEPT !.pc = "done", !.outcome = Throw(MaxIterationsError(rec.options))]

\* Mutant of LookupTool: the tool map is a field of the client, set by the
\* send that started last.
LookupTool_Shared(c, name) ==
  LET last == CHOOSE x \in DOMAIN inflight :
                \A y \in DOMAIN inflight : inflight[y].order <= inflight[x].order
  IN  MapGet(inflight[last].toolMap, name)

\* toolMap.get(toolName) in call c.
LookupTool(c, name) == MapGet(inflight[c].toolMap, name)

\* What the actions of the concurrent sends leave alone.
twoFixed ==
  <<apiKey, baseUrl, method, pc, options, requests, received, outcome, sendVars,
    streamVars, env, config, events, accum, probe>>

\* Caller c calls send: sendSimple up to its first await.
sendBy(c) ==
  /\ c \notin DOMAIN inflight
  /\ LET opts == OptionsOf(c)
     IN  inflight' = WithCall(c, LoopHeadOf(
           [options |-> opts, order |-> Cardinality(DOMAIN inflight) + 1,
            messages |-> <<UserMessage(opts.input.s)>>,
            openAiTools |-> OpenAiTools(opts.tools), toolMap |-> ToolMap(opts.tools),
            iterations |-> 0, totalUsage |-> Undef, response |-> Undef, tcIndex |-> 0,
            requests |-> <<>>, received |-> <<>>, invoked |-> <<>>, settled |-> <<>>,
            pc |-> "idle", outcome |-> Undef]))
  /\ UNCHANGED twoFixed

\* The fetch of call c resolved with res.
callApiResolveOf(c, res) ==
  /\ c \in DOMAIN inflight
  /\ inflight[c].pc = "fetch"
  /\ UNCHANGED twoFixed
  /\ LET rec == [inflight[c] EXCEPT !.received = Append(@, res)]
         resp == SendResponse(res.data.choices, res.data.usage)
         choice == First(resp.choices)
         usage == AccumulateUsage(rec.totalUsage, resp.usage)
         tcs == Chain(Chain(choice, "message"), "tool_calls")
     IN  inflight' = WithCall(c,
           IF ~res.ok
           THEN [rec EXCEPT !.pc = "done", !.outcome = Throw(ApiError(res))]
           ELSE IF ~Truthy(tcs) \/ Len(tcs.a) = 0
           THEN [rec EXCEPT !.response = resp, !.totalUsage = usage, !.pc = "done",
                            !.outcome = Return(FinalResponse(resp, usage))]
           ELSE [rec EXCEPT !.response = resp, !.totalUsage = usage,
                            !.messages = Append(@, AssistantMessage(choice)),
                            !.tcIndex = 1, !.pc = "tool"])

\* After the tool message of the current call of c was pushed.
AdvanceOf(rec, msg) ==
  LET pushed == [rec EXCEPT !.messages = Append(@, msg)]
  IN  IF rec.tcIndex < Len(First(rec.response.choices).message.tool_calls.a)
      THEN [pushed EXCEPT !.tcIndex = @ + 1, !.pc = "tool"]
      ELSE LoopHeadOf(pushed)

\* One iteration of the tool loop of call c up to its await.
toolCallStepOf(c) ==
  /\ c \in DOMAIN inflight
  /\ inflight[c].pc = "tool"
  /\ UNCHANGED twoFixed
  /\ LET rec == inflight[c]
         toolCall == First(rec.response.choices).message.tool_calls.a[rec.tcIndex]
         tool == LookupTool(c, toolCall.function.name)
         rawArgs == JSONParse(toolCall.function.arguments)
     IN  inflight' = WithCall(c,
           IF tool = Undef
           THEN AdvanceOf(rec, ToolMessage(toolCall, UnknownToolResult(toolCall.function.name)))
           ELSE IF ~rawArgs.ok
           THEN AdvanceOf(rec, ToolMessage(toolCall, CatchResult(rawArgs.err)))
           ELSE LET parsedArgs == SchemaParse(tool.schema, rawArgs.value)
                IN  IF ~parsedArgs.ok
                    THEN AdvanceOf(rec, ToolMessage(toolCall, CatchResult(parsedArgs.err)))
                    ELSE [rec EXCEPT
                            !.invoked = Append(@, [hid |-> tool.hid, args |-> parsedArgs.value,
                                                   id |-> toolCall.id, index |-> rec.tcIndex,
                                                   round |-> rec.iterations]),
                            !.pc = "handler"])

\* The awaited handler of call c settled with o.
handlerSettleOf(c, o) ==
  /\ c \in DOMAIN inflight
  /\ inflight[c].pc = "handler"
  /\ UNCHANGED twoFixed
  /\ LET rec == [inflight[c] EXCEPT !.settled = Append(@, o)]
         toolCall == First(rec.response.choices).message.tool_calls.a[rec.tcIndex]
         result == IF o.k = "return" THEN o.v ELSE CatchResult(o.v)
     IN  inflight' = WithCall(c, AdvanceOf(rec, ToolMessage(toolCall, result)))

\* The outcomes of the handlers of the concurrent sends.
TwoOutcomes ==
  { [k |-> "return", v |-> Str("sunny")], [k |-> "throw", v |-> Err("Error", "boom")] }

NextTwo ==
  \/ \E c \in Callers : sendBy(c)
  \/ \E c \in Callers : \E res \in ResponsesOf(c) : callApiResolveOf(c, res)
  \/ \E c \in Callers : toolCallStepOf(c)
  \/ \E c \in Callers : \E o \in TwoOutcomes : handlerSettleOf(c, o)

SpecTwo == Init /\ [][NextTwo]_vars

\* The ids of the tool calls the responses in rcv carried.
CallIdsIn(rcv) ==
  { First(rcv[r].data.choices).message.tool_calls.a[i].id :
      r \in { x \in 1..Len(rcv) :
                rcv[x].ok /\ First(rcv[x].data.choices).message.tool_calls.t = "array" },
      i \in {1} }

\* The sum of usage field f over the first n responses of rcv.
RECURSIVE SumOver(_, _, _)
SumOver(rcv, f, n) ==
  IF n = 0 THEN 0
  ELSE SumOver(rcv, f, n - 1)
       + (IF rcv[n].ok /\ rcv[n].data.usage.t = "object" THEN rcv[n].data.usage[f] ELSE 0)

\* C17: with two sends interleaved on one client, each call keeps to its own
\* data: its tool map and declarations are those of its own tools; its
\* requests carry its own model, tools and conversation; its conversation
\* starts with its own input and holds only assistant messages of its own
\* responses and tool messages answering calls of its own responses; the
\* handlers invoked for it are its own tools' handlers; its usage total is the
\* sum over its own responses; and the client's apiKey and baseUrl stay as
\* constructed.
C17_CallsIsolated ==
  /\ apiKey = "test-api-key"
  /\ baseUrl = "https://api.edgee.ai"
  /\ \A c \in DOMAIN inflight :
       LET rec == inflight[c]
           own == OptionsOf(c)
       IN  /\ rec.options = own
           /\ rec.toolMap = ToolMap(own.tools)
           /\ rec.openAiTools = OpenAiTools(own.tools)
           /\ rec.messages[1] = UserMessage(own.input.s)
           /\ \A r \in 1..Len(rec.requests) :
                /\ rec.requests[r].body.model = own.model
                /\ rec.requests[r].body.tools = OpenAiTools(own.tools)
                /\ IsPrefixOf(rec.requests[r].body.messages, rec.messages)
                /\ rec.requests[r].authorization = "Bearer test-api-key"
           /\ \A j \in 2..Len(rec.messages) :
                /\ rec.messages[j].role \in {"assistant", "tool"}
                /\ rec.messages[j].role = "assistant" =>
                     \E r \in 1..Len(rec.received) :
                       rec.messages[j] = AssistantMessage(First(rec.received[r].data.choices))
                /\ rec.messages[j].role = "tool" =>
                     \E id \in CallIdsIn(rec.received) : rec.messages[j].tool_call_id = Str(id)
           /\ \A e \in 1..Len(rec.invoked) :
                /\ rec.invoked[e].hid = own.tools.a[1].hid
                /\ rec.invoked[e].id \in CallIdsIn(rec.received)
           /\ IF rec.received = <<>>
              THEN rec.totalUsage = Undef
              ELSE \A f \in ScalarFields :
                     rec.totalUsage[f] = SumOver(rec.received, f, Len(rec.received))

\* C17 witness: b started first and is in its first handler run while a,
\* started second, is already in the handler run of its second round.
C17_Witness ==
  /\ DOMAIN inflight = Callers
  /\ inflight["b"].order = 1
  /\ inflight["b"].pc = "handler"
  /\ inflight["b"].iterations = 1
  /\ inflight["a"].pc = "handler"
  /\ inflight["a"].iterations = 2
  /\ Len(inflight["a"].invoked) = 2

\* ------------------------------------------------------------ construction
\* The client from its construction on, in an environment that changes.
EdgeeConfig(key, url) == [t |-> "object", apiKey |-> key, baseUrl |-> url]

\* The arguments of the constructor.
ConfigPool ==
  { Undef, Str(""), Str("arg-key"),
    EdgeeConfig(Undef, Undef),
    EdgeeConfig(Str(""), Str("")),
    EdgeeConfig(Str("cfg-key"), Undef),
    EdgeeConfig(Str("cfg-key"), Str("https://custom.example")),
    EdgeeConfig(Undef, Str("https://custom.example")) }

\* The values the environment variables take.
EnvValues ==
  [EDGEE_API_KEY |-> {Undef, Str(""), Str("env-key")},
   EDGEE_BASE_URL |-> {Undef, Str("https://env.example")}]

\* Mutant of construct: the check of the key is missing.
construct_NoCheck(cfg) ==
  /\ pc = "new"
  /\ config' = [arg |-> cfg, env |-> env]
  /\ apiKey' = ResolveApiKey(cfg, env).s
  /\ baseUrl' = ResolveBaseUrl(cfg, env).s
  /\ pc' = "idle"
  /\ UNCHANGED <<env, method, options, requests, received, outcome, sendVars,
                 streamVars, events, accum, inflight, probe>>

\* new Edgee(cfg): the fields are set, or the constructor throws after
\* setting apiKey to "".
construct(cfg) ==
  /\ pc = "new"
  /\ config' = [arg |-> cfg, env |-> env]
  /\ apiKey' = ResolveApiKey(cfg, env).s
  /\ UNCHANGED <<env, options, requests, received, sendVars, streamVars, events,
                 accum, inflight, probe>>
  /\ IF ~Truthy(ResolveApiKey(cfg, env))
     THEN /\ method' = "constructor"
          /\ pc' = "done"
          /\ outcome' = Throw(Err("Error", "EDGEE_API_KEY is not set"))
          /\ baseUrl' = baseUrl
     ELSE /\ baseUrl' = ResolveBaseUrl(cfg, env).s
          /\ pc' = "idle"
          /\ UNCHANGED <<method, outcome>>

\* The environment changes: a variable is set, emptied or unset.
setenv(name, value) ==
  /\ env[name] # value
  /\ env' = [env EXCEPT ![name] = value]
  /\ UNCHANGED <<config, apiKey, baseUrl, method, pc, options, requests, received,
                 outcome, sendVars, streamVars, events, accum, inflight, probe>>

\* The calls made on the constructed client.
ConfigSendOptions ==
  { [model |-> "gpt-4o", input |-> Str("What is the weather?"),
     tools |-> Arr(<<WeatherTool>>), maxToolIterations |-> Num(MaxIter)] }
  \cup
  { [model |-> "gpt-4o", input |-> i] :
      i \in { x \in InputObjects : x.tools = Undef /\ x.tool_choice = Undef } }

ConfigResponses ==
  { [ok |-> TRUE, status |-> 200, text |-> "",
     data |-> [choices |-> c, usage |-> Undef]] :
      c \in { Arr(<<Choice(0, Str("Hi"), Undef, Str("stop"))>>),
              Arr(<<Choice(0, Null, Arr(<<ToolCall("call_1", "get_weather", ArgsGood)>>),
                           Str("tool_calls"))>>) } }

\* No client exists yet; the environment is empty.
InitConfig ==
  /\ env = EmptyEnv
  /\ config = Undef
  /\ apiKey = ""
  /\ baseUrl = ""
  /\ pc = "new"
  /\ InitCall

NextConfig ==
  \/ \E cfg \in ConfigPool : construct(cfg)
  \/ \E name \in DOMAIN EnvValues : \E value \in EnvValues[name] : setenv(name, value)
  \/ \E opts \in ConfigSendOptions : send(opts)
  \/ \E res \in ConfigResponses : callApiResolve(res)
  \/ \E res \in ConfigResponses : sendAdvancedResolve(res)
  \/ toolCallStep
  \/ handlerSettle([k |-> "return", v |-> Str("sunny")])
  \/ stream("gpt-4o", Str("Hello"))
  \/ pull
  \/ \E res \in StreamResponses : streamFetchResolve(res)

SpecConfig == InitConfig /\ [][NextConfig]_vars

\* v is a non-empty string.
NonEmpty(v) == v.t = "string" /\ v.s # ""

\* The key given to the constructor: the string argument or config.apiKey.
ExplicitKey(arg) ==
  IF arg.t = "string" THEN arg
  ELSE IF arg.t = "object" THEN arg.apiKey
  ELSE Undef

\* The base URL given to the constructor: config.baseUrl.
ExplicitUrl(arg) == IF arg.t = "object" THEN arg.baseUrl ELSE Undef

Constructing == pc # "new"

\* C18: when neither the constructor's argument (a string, or apiKey of a
\* config object) nor EDGEE_API_KEY at construction time gives a non-empty
\* key, the construction fails with 'EDGEE_API_KEY is not set', and no
\* request is ever issued, whatever the environment becomes afterwards.
C18_MissingKey ==
  (Constructing /\ ~NonEmpty(ExplicitKey(config.arg))
                /\ ~NonEmpty(config.env.EDGEE_API_KEY)) =>
    /\ pc = "done"
    /\ method = "constructor"
    /\ outcome = Throw(Err("Error", "EDGEE_API_KEY is not set"))
    /\ requests = <<>>

\* C18 witness: an empty key in the config object and an empty EDGEE_API_KEY
\* made the constructor throw; the variable was set afterwards.
C18_Witness ==
  /\ Constructing
  /\ config.arg = EdgeeConfig(Str(""), Str(""))
  /\ config.env.EDGEE_API_KEY = Str("")
  /\ env.EDGEE_API_KEY = Str("env-key")
  /\ outcome = Throw(Err("Error", "EDGEE_API_KEY is not set"))

\* The key and base URL the requests of the client must carry.
ExpectedKey ==
  IF NonEmpty(ExplicitKey(config.arg)) THEN ExplicitKey(config.arg).s
  ELSE config.env.EDGEE_API_KEY.s

ExpectedUrl ==
  IF NonEmpty(ExplicitUrl(config.arg)) THEN ExplicitUrl(config.arg).s
  ELSE IF NonEmpty(config.env.EDGEE_BASE_URL) THEN config.env.EDGEE_BASE_URL.s
  ELSE "https://api.edgee.ai"

\* C19: a constructed client holds the key and base URL resolved at
\* construction (the explicit value, else the environment variable as it was
\* then, else for the base URL https://api.edgee.ai) whatever the environment
\* becomes, and every request of every round of send and of stream goes to
\* <baseUrl>/v1/chat/completions with Authorization 'Bearer <apiKey>'.
C19_RequestTarget ==
  (Constructing /\ method # "constructor") =>
    /\ apiKey = ExpectedKey
    /\ baseUrl = ExpectedUrl
    /\ \A r \in 1..Len(requests) :
         /\ requests[r].url = ExpectedUrl \o "/v1/chat/completions"
         /\ requests[r].authorization = "Bearer " \o ExpectedKey

\* C19 witness: key and base URL came from the environment, which was
\* changed after the construction; two rounds of a send were requested.
C19_Witness ==
  /\ Constructing
  /\ config.arg = Undef
  /\ config.env = [EDGEE_API_KEY |-> Str("env-key"),
                   EDGEE_BASE_URL |-> Str("https://env.example")]
  /\ env = [EDGEE_API_KEY |-> Str(""), EDGEE_BASE_URL |-> Undef]
  /\ Len(requests) = 2
  /\ requests[2].url = "https://env.example/v1/chat/completions"
  /\ requests[2].authorization = "Bearer env-key"

\* ------------------------------------------------------------ default round cap
\* A simple-mode send that leaves maxToolIterations out.
DefaultOptions ==
  { [model |-> "gpt-4o", input |-> Str("What is the weather?"),
     tools |-> Arr(<<WeatherTool>>), maxToolIterations |-> Undef] }

\* The responses: a call of the registered tool, a call of an unknown tool,
\* or a final answer.
DefaultResponses ==
  { [ok |-> TRUE, status |-> 200, text |-> "",
     data |-> [choices |-> c, usage |-> Undef]] :
      c \in { Arr(<<Choice(0, Null, Arr(<<ToolCall("call_1", "get_weather", ArgsGood)>>),
                           Str("tool_calls"))>>),
              Arr(<<Choice(0, Null, Arr(<<ToolCall("call_1", "get_time", ArgsEmpty)>>),
                           Str("tool_calls"))>>),
              Arr(<<Choice(0, Str("Hi"), Undef, Str("stop"))>>) } }

NextDefault ==
  \/ \E opts \in DefaultOptions : send(opts)
  \/ \E res \in DefaultResponses : callApiResolve(res)
  \/ toolCallStep
  \/ handlerSettle([k |-> "return", v |-> Str("sunny")])

SpecDefault == Init /\ [][NextDefault]_vars

\* C20: in a simple-mode send without maxToolIterations, as long as every
\* response carries tool calls at most 10 requests are made and no response is
\* returned; the call ends only after the tool loop of the 10th round, with
\* the iteration-limit failure naming 10.
C20_DefaultCap ==
  (IsSimple /\ options.maxToolIterations = Undef /\ AllToolCalls) =>
    /\ Len(requests) <= 10
    /\ pc = "done" =>
         /\ Len(requests) = 10
         /\ Len(received) = 10
         /\ outcome = Throw(Err("Error", "Max tool iterations (10) reached"))
    /\ (Len(received) = 10 /\ pc \notin {"tool", "handler"}) => pc = "done"

\* C20 witness: ten tool-call responses were answered and the call failed.
C20_Witness ==
  /\ IsSimple
  /\ options.maxToolIterations = Undef
  /\ AllToolCalls
  /\ Len(requests) = 10
  /\ Len(received) = 10
  /\ Len(invoked) >= 1
  /\ pc = "done"
  /\ outcome.k = "throw"

\* ------------------------------------------------------------ accessors
\* class StreamChunk: the accessors.
\* get text()
chunkText(c) ==
  LET v == Chain(Chain(First(c.choices), "delta"), "content")
  IN  IF Truthy(v) THEN v ELSE Null

\* get role()
chunkRole(c) ==
  LET v == Chain(Chain(First(c.choices), "delta"), "role")
  IN  IF Truthy(v) THEN v ELSE Null

\* Mutant of chunkFinishReason: the last choice that has one decides.
chunkFinishReason_LastChoice(c) ==
  LET n == Len(c.choices.a)
      v == IF n = 0 THEN Undef ELSE Chain(c.choices.a[n], "finish_reason")
  IN  IF Truthy(v) THEN v ELSE Null

\* get finishReason()
chunkFinishReason(c) ==
  LET v == Chain(First(c.choices), "finish_reason")
  IN  IF Truthy(v) THEN v ELSE Null

\* How many objects the caller holds at once.
MaxHeld == 2

\* First elements of a one-shot payload's choices: with text, with tool
\* calls, with an empty text and a null finish_reason, and without a message.
FirstChoices ==
  { Choice(0, Str("Hi"), Undef, Str("stop")),
    Choice(0, Null, Arr(<<ToolCall("call_1", "get_weather", ArgsGood)>>),
           Str("tool_calls")),
    Choice(0, Str(""), Undef, Null),
    [t |-> "object", index |-> 0, finish_reason |-> Str("stop")] }

\* What may follow the first element.
OtherChoices ==
  { <<>>,
    <<Choice(1, Str("Other"), Undef, Str("length"))>>,
    <<Choice(1, Null, Arr(<<ToolCall("call_9", "get_time", ArgsEmpty)>>),
             Str("tool_calls"))>> }

AccessorChoices ==
  { Arr(<<>>) } \cup { Arr(<<f>> \o o) : f \in FirstChoices, o \in OtherChoices }

\* interface StreamChoice; finish_reason is left out when undefined.
StreamChoice(index, delta, finish_reason) ==
  IF finish_reason = Undef
  THEN [t |-> "object", index |-> index, delta |-> delta]
  ELSE [t |-> "object", index |-> index, delta |-> delta,
        finish_reason |-> finish_reason]

\* First elements of a chunk's choices: a role, a text, an empty text, an
\* empty delta with a finish_reason.
FirstStreamChoices ==
  { StreamChoice(0, [t |-> "object", role |-> Str("assistant")], Undef),
    StreamChoice(0, [t |-> "object", content |-> Str("Hi")], Null),
    StreamChoice(0, [t |-> "object", role |-> Str("assistant"),
                     content |-> Str("")], Undef),
    StreamChoice(0, [t |-> "object"], Str("stop")) }

OtherStreamChoices ==
  { <<>>,
    <<StreamChoice(1, [t |-> "object", role |-> Str("user"),
                       content |-> Str("Other")], Str("length"))>> }

AccessorStreamChoices ==
  { Arr(<<>>) } \cup
  { Arr(<<f>> \o o) : f \in FirstStreamChoices, o \in OtherStreamChoices }

\* Everything but probe.
callVars ==
  <<apiKey, baseUrl, method, pc, options, requests, received, outcome, sendVars,
    streamVars, env, config, events, accum, inflight>>

\* The caller builds a SendResponse and reads its four accessors.
readSendResponse(choices) ==
  /\ Len(probe) < MaxHeld
  /\ LET r == SendResponse(choices, Undef)
     IN  probe' = Append(probe,
           [class |-> "SendResponse", obj |-> r,
            reads |-> [text |-> text(r), message |-> message(r),
                       finishReason |-> finishReason(r),
                       toolCalls |-> toolCalls(r)]])
  /\ UNCHANGED callVars

\* The caller builds a StreamChunk and reads its three accessors.
readStreamChunk(choices) ==
  /\ Len(probe) < MaxHeld
  /\ LET c == StreamChunk(choices)
     IN  probe' = Append(probe,
           [class |-> "StreamChunk", obj |-> c,
            reads |-> [text |-> chunkText(c), role |-> chunkRole(c),
                       finishReason |-> chunkFinishReason(c)]])
  /\ UNCHANGED callVars

NextAccessors ==
  \/ \E c \in AccessorChoices : readSendResponse(c)
  \/ \E c \in AccessorStreamChoices : readStreamChunk(c)

SpecAccessors == Init /\ [][NextAccessors]_vars

\* The field of the first choice an accessor reads, undefined when absent.
FieldOf(p, accessor) ==
  LET f == First(p.obj.choices)
  IN  CASE p.class = "SendResponse" /\ accessor = "text" ->
             Chain(Chain(f, "message"), "content")
        [] p.class = "SendResponse" /\ accessor = "message" -> Chain(f, "message")
        [] p.class = "SendResponse" /\ accessor = "toolCalls" ->
             Chain(Chain(f, "message"), "tool_calls")
        [] p.class = "StreamChunk" /\ accessor = "text" ->
             Chain(Chain(f, "delta"), "content")
        [] p.class = "StreamChunk" /\ accessor = "role" ->
             Chain(Chain(f, "delta"), "role")
        [] OTHER -> Chain(f, "finish_reason")

\* C21: two responses, or two chunks, that agree on choices[0] give equal
\* values for every accessor whatever their other choices are, and a field
\* that the first choice does not have (or no first choice) gives null.
C21_FirstChoiceOnly ==
  /\ \A i, j \in DOMAIN probe :
       (/\ probe[i].class = probe[j].class
        /\ First(probe[i].obj.choices) = First(probe[j].obj.choices))
         => probe[i].reads = probe[j].reads
  /\ \A i \in DOMAIN probe : \A a \in DOMAIN probe[i].reads :
       Nullish(FieldOf(probe[i], a)) => probe[i].reads[a] = Null

\* C21 witness: the caller holds two objects of one class with the same first
\* choice and different further choices, and one with no first choice's field.
C21_Witness ==
  /\ Len(probe) = 2
  /\ probe[1].class = probe[2].class
  /\ First(probe[1].obj.choices) = First(probe[2].obj.choices)
  /\ probe[1].obj.choices # probe[2].obj.choices
  /\ probe[1].reads.finishReason # Null
  /\ probe[1].reads.text = Null

\* ------------------------------------------------------------ malformed payloads
\* this.choices[0] at the head of every accessor: reading the accessor gives
\* its value, or throws when choices is undefined or null.
Get(r, v) == IF Nullish(r.choices) THEN Throw(IndexError) ELSE Return(v)

\* The caller reads the four accessors of the response send returned.
readAccessors ==
  /\ pc = "done"
  /\ method = "send"
  /\ outcome.k = "return"
  /\ probe = <<>>
  /\ LET r == outcome.v
     IN  probe' = <<[class |-> "SendResponse", obj |-> r,
                     reads |-> [text |-> Get(r, text(r)),
                                message |-> Get(r, message(r)),
                                finishReason |-> Get(r, finishReason(r)),
                                toolCalls |-> Get(r, toolCalls(r))]]>>
  /\ UNCHANGED callVars

\* 200 responses whose payload is not of the declared shape: {} (no
\* choices), a first choice without a message, a null first choice; and two
\* of the declared shape.
MalformedData ==
  { [choices |-> Undef, usage |-> Undef],
    [choices |-> Arr(<<[t |-> "object", index |-> 0,
                        finish_reason |-> Str("stop")]>>), usage |-> Undef],
    [choices |-> Arr(<<Null>>), usage |-> Undef] }

MalformedResponses ==
  { [ok |-> TRUE, status |-> 200, text |-> "", data |-> d] :
      d \in MalformedData \cup
            { [choices |-> Arr(<<Choice(0, Str("Hi"), Undef, Str("stop"))>>),
               usage |-> UsageA],
              [choices |-> Arr(<<Choice(0, Null,
                   Arr(<<ToolCall("call_1", "get_weather", ArgsGood)>>),
                   Str("tool_calls"))>>), usage |-> UsageA] } }

NextMalformed ==
  \/ \E opts \in SimpleOptions \cup AdvancedOptions : send(opts)
  \/ \E res \in MalformedResponses : callApiResolve(res)
  \/ \E res \in MalformedResponses : sendAdvancedResolve(res)
  \/ toolCallStep
  \/ handlerSettle([k |-> "return", v |-> Str("sunny")])
  \/ readAccessors

SpecMalformed == Init /\ [][NextMalformed]_vars

\* The last payload received is one of the malformed ones.
LastMalformed ==
  /\ method = "send"
  /\ Len(received) > 0
  /\ received[Len(received)].ok
  /\ received[Len(received)].data \in MalformedData

\* C22: a one-shot payload of malformed shape (no choices field, a first
\* choice without a message) makes send return a response, and reading its
\* accessors raises nothing and gives null for what the payload lacks.
C22_MalformedDegrades ==
  (LastMalformed /\ pc = "done") =>
    /\ outcome.k = "return"
    /\ \A i \in DOMAIN probe :
         /\ \A a \in DOMAIN probe[i].reads : probe[i].reads[a].k = "return"
         /\ probe[i].reads.text = Return(Null)
         /\ probe[i].reads.message = Return(Null)
         /\ probe[i].reads.toolCalls = Return(Null)

\* ------------------------------------------------------------ error results
\* What a handler may throw besides HandlerOutcomes: a ZodError of its own
\* (a schema it applies itself) and a TypeError.
ErrorOutcomes ==
  HandlerOutcomes \cup
  { [k |-> "throw", v |-> Err("ZodError", "Expected number, received string")],
    [k |-> "throw", v |-> Err("TypeError", "x is not a function")] }

ErrorOptions ==
  { [model |-> "gpt-4o", input |-> Str("What is the weather?"),
     tools |-> Arr(<<WeatherTool>>), maxToolIterations |-> Num(MaxIter)] }

\* Responses: calls of the registered tool with arguments the schema takes,
\* arguments it rejects, both in one round, two good calls in one round, or a
\* final answer.
ErrorResponses ==
  { [ok |-> TRUE, status |-> 200, text |-> "",
     data |-> [choices |-> c, usage |-> Undef]] :
      c \in { Arr(<<Choice(0, Null, Arr(<<ToolCall("call_1", "get_weather", ArgsGood)>>),
                           Str("tool_calls"))>>),
              Arr(<<Choice(0, Null, Arr(<<ToolCall("call_1", "get_weather", ArgsWrongType)>>),
                           Str("tool_calls"))>>),
              Arr(<<Choice(0, Null, Arr(<<ToolCall("call_1", "get_weather", ArgsEmpty),
                                          ToolCall("call_2", "get_weather", ArgsGood)>>),
                           Str("tool_calls"))>>),
              Arr(<<Choice(0, Null, Arr(<<ToolCall("call_1", "get_weather", ArgsGood),
                                          ToolCall("call_2", "get_weather", ArgsGood)>>),
                           Str("tool_calls"))>>),
              Arr(<<Choice(0, Str("Hi"), Undef, Str("stop"))>>) } }

NextErrors ==
  \/ \E opts \in ErrorOptions : send(opts)
  \/ \E res \in ErrorResponses : callApiResolve(res)
  \/ toolCallStep
  \/ \E o \in ErrorOutcomes : handlerSettle(o)

SpecErrors == Init /\ [][NextErrors]_vars

\* The text of the tool message for the result {error: msg}.
ErrorContent(msg) == Stringify([t |-> "object", error |-> Str(msg)])

\* The ZodError of the schema for the arguments of a call, or Undef when the
\* argument text does not parse or the schema accepts the arguments.
ValidationError(call) ==
  LET rawArgs == JSONParse(call.function.arguments)
      tool == MapGet(toolMap, call.function.name)
  IN  IF rawArgs.ok /\ ~SchemaParse(tool.schema, rawArgs.value).ok
      THEN SchemaParse(tool.schema, rawArgs.value).err
      ELSE Undef

\* The message a failure carries: an Error's message, a thrown text itself.
OwnMessage(v) == IF v.t = "error" THEN v.message ELSE v.s

\* The calls of registered tools whose tool message has been appended, as
\* <<round, index>>.
AnsweredCalls ==
  { ri \in (1..Len(received)) \X (1..2) :
      /\ ri[2] <= Len(CallsOf(ri[1]))
      /\ CallsOf(ri[1])[ri[2]].function.name \in ToolNames
      /\ Len(messages) >= ToolMsgPos(ri[1], ri[2]) }

Invokable(call) ==
  /\ call.function.name \in ToolNames
  /\ LET rawArgs == JSONParse(call.function.arguments)
         tool == MapGet(toolMap, call.function.name)
     IN  rawArgs.ok /\ SchemaParse(tool.schema, rawArgs.value).ok

\* The tool message of call i of round r has been appended.
Answered(r, i) == Len(messages) >= ToolMsgPos(r, i)

\* C24 as stated: each round makes exactly one request and, for each tool
\* call of the round, exactly one handler invocation.
C24_OneInvocationPerCall ==
  IsSimple =>
    /\ Len(requests) = iterations
    /\ \A r \in 1..Len(received) : \A i \in 1..Len(CallsOf(r)) :
         Answered(r, i) => Cardinality(InvocationsFor(r, i)) = 1

\* C24 amended: each round makes exactly one request (the requests made are as
\* many as the rounds started, and at most one is unanswered); each tool call
\* of the round gets at most one handler invocation: exactly one when it names
\* a supplied tool and its arguments parse and validate, none otherwise.
C24_OneRequestPerRound ==
  IsSimple =>
    /\ Len(requests) = iterations
    /\ Len(received) \in {Len(requests) - 1, Len(requests)}
    /\ \A e \in DOMAIN invoked :
         /\ invoked[e].round \in 1..Len(received)
         /\ invoked[e].index \in 1..Len(CallsOf(invoked[e].round))
    /\ \A r \in 1..Len(received) : \A i \in 1..Len(CallsOf(r)) :
         /\ Cardinality(InvocationsFor(r, i)) <= 1
         /\ Answered(r, i) =>
              Cardinality(InvocationsFor(r, i)) =
                IF Invokable(CallsOf(r)[i]) THEN 1 ELSE 0

\* C24 witness: a round of two calls, the first of an unknown tool and the
\* second invoked once, is over and the second round's request was made.
C24_Witness ==
  /\ IsSimple
  /\ Len(requests) = 2
  /\ Len(received) = 1
  /\ Len(CallsOf(1)) = 2
  /\ ~Invokable(CallsOf(1)[1])
  /\ Invokable(CallsOf(1)[2])
  /\ InvocationsFor(1, 1) = {}
  /\ InvocationsFor(1, 2) = {1}
  /\ Answered(1, 2)

\* The handler invocations that have not settled.
Running == { e \in DOMAIN invoked : e > Len(settled) }

\* C25: within one simple-mode send nothing overlaps. At most one handler
\* runs at a time; while the handler of call i of round r runs, every earlier
\* call of the round has its tool message and no request is in flight; at most
\* one request is in flight; and once the request of round r+1 is issued every
\* call of round r has its tool message.
C25_NothingOverlaps ==
  IsSimple =>
    /\ Cardinality(Running) <= 1
    /\ Len(requests) - Len(received) \in {0, 1}
    /\ \A e \in Running :
         /\ Len(requests) = Len(received)
         /\ invoked[e].round = Len(received)
         /\ \A j \in 1..(invoked[e].index - 1) : Answered(invoked[e].round, j)
         /\ ~Answered(invoked[e].round, invoked[e].index)
         /\ \A d \in 1..(e - 1) : Answered(invoked[d].round, invoked[d].index)
    /\ \A r \in 1..(Len(requests) - 1) : \A i \in 1..Len(CallsOf(r)) : Answered(r, i)

\* C25 witness: both handlers of a round of two calls ran, the second is
\* running while the first has settled and has its tool message.
C25_Witness ==
  /\ IsSimple
  /\ Len(received) = 1
  /\ Len(CallsOf(1)) = 2
  /\ Len(invoked) = 2
  /\ Len(settled) = 1
  /\ Running = {2}
  /\ Answered(1, 1)
  /\ Len(requests) = 1

\* C26: the conversation of a simple-mode send is append-only. The messages
\* sent in round r+1 have those sent in round r as a strict prefix; the first
\* message of every request is the user message holding the input text and
\* no other message is a user message; what was sent last is a prefix of the
\* conversation; and every step leaves the conversation as it was or extends it.
C26_AppendOnly ==
  /\ [](IsSimple =>
          /\ \A r \in 1..Len(requests) :
               /\ Sent(r)[1] = UserMessage(options.input.s)
               /\ \A k \in 2..Len(Sent(r)) : Sent(r)[k].role # "user"
          /\ \A r \in 1..(Len(requests) - 1) :
               /\ IsPrefixOf(Sent(r), Sent(r + 1))
               /\ Len(Sent(r)) < Len(Sent(r + 1))
          /\ Len(requests) > 0 => IsPrefixOf(Sent(Len(requests)), messages))
  /\ [][method = "send" => IsPrefixOf(messages, messages')]_vars

\* C26 witness: the second request carries the user message, the assistant
\* message and two tool messages, after a first request of the user message alone.
C26_Witness ==
  /\ IsSimple
  /\ Len(requests) = 2
  /\ Len(Sent(1)) = 1
  /\ Len(Sent(2)) = 4
  /\ Sent(2)[1] = UserMessage("What is the weather?")
  /\ Sent(2)[2].role = "assistant"
  /\ Sent(2)[4].role = "tool"

\* ------------------------------------------------------------ nested usage
\* A usage object without the nested detail objects.
UsageScalar ==
  [t |-> "object", prompt_tokens |-> 10, completion_tokens |-> 5, total_tokens |-> 15]

\* Rounds that report usage with or without the nested counters, or none.
NestedUsagePool == {Undef, UsageA, UsageB, UsageScalar}

NestedOptions ==
  { [model |-> "gpt-4o", input |-> Str("What is the weather?"),
     tools |-> Arr(<<WeatherTool>>), maxToolIterations |-> Num(n)] : n \in 1..MaxIter }

NestedResponses ==
  { [ok |-> TRUE, status |-> 200, text |-> "",
     data |-> [choices |-> c, usage |-> u]] :
      c \in { Arr(<<Choice(0, Null, Arr(<<ToolCall("call_1", "get_weather", ArgsGood)>>),
                           Str("tool_calls"))>>),
              Arr(<<Choice(0, Str("Hi"), Undef, Str("stop"))>>) },
      u \in NestedUsagePool }

NextNested ==
  \/ \E opts \in NestedOptions : send(opts)
  \/ \E res \in NestedResponses : callApiResolve(res)
  \/ toolCallStep
  \/ \E o \in {Return(Str("sunny")), Throw(Err("Error", "boom"))} : handlerSettle(o)

SpecNested == Init /\ [][NextNested]_vars

\* The sum of nested counter d.f over the first n fetch results; a usage
\* without the detail object contributes nothing.
RECURSIVE SumNested(_, _, _)
SumNested(d, f, n) ==
  IF n = 0 THEN 0
  ELSE SumNested(d, f, n - 1)
       + (IF CarriedUsage(n) /\ HasDetails(received[n].data.usage, d)
          THEN received[n].data.usage[d][f] ELSE 0)

\* Some usage received so far carried the detail object d.
SomeNested(d) ==
  \E r \in 1..Len(received) : CarriedUsage(r) /\ HasDetails(received[r].data.usage, d)

\* u holds, for each detail object some usage carried, the sum of its counter.
IsNestedTotal(u) ==
  /\ SomeNested("input_tokens_details") =>
       /\ u.t = "object"
       /\ HasDetails(u, "input_tokens_details")
       /\ u.input_tokens_details.cached_tokens =
            SumNested("input_tokens_details", "cached_tokens", Len(received))
  /\ SomeNested("output_tokens_details") =>
       /\ u.t = "object"
       /\ HasDetails(u, "output_tokens_details")
       /\ u.output_tokens_details.reasoning_tokens =
            SumNested("output_tokens_details", "reasoning_tokens", Len(received))

\* C27: the nested counters are accumulated like the scalar ones: after N
\* rounds the accumulated cached-token and reasoning-token counts are the sums
\* of those counters over the rounds' usages, starting from a copy of the
\* first usage; the accumulation never makes send fail, and a send that
\* returns returns that total.
C27_NestedUsageIsSum ==
  IsSimple =>
    /\ IsNestedTotal(totalUsage)
    /\ IsUsageTotal(totalUsage)
    /\ (\E r \in 1..Len(received) : CarriedUsage(r) /\
          \A q \in 1..(r - 1) : ~CarriedUsage(q)) =>
         (Len(received) = 1 => totalUsage = received[1].data.usage)
    /\ pc = "done" =>
         \/ outcome.k = "return" /\ outcome.v.usage = totalUsage
         \/ outcome = Throw(MaxIterationsError(options))

\* ------------------------------------------------------------ tool results
\* What a handler may return: a text, an object, a number, null, or nothing
\* (a handler without a return statement resolves to undefined).
ResultOutcomes ==
  { Return(Str("sunny")),
    Return([t |-> "object", temperature |-> Num(18)]),
    Return(Num(18)),
    Return(Null),
    Return(Undef) }

NextResults ==
  \/ \E opts \in ErrorOptions : send(opts)
  \/ \E res \in ErrorResponses : callApiResolve(res)
  \/ toolCallStep
  \/ \E o \in ResultOutcomes : handlerSettle(o)

SpecResults == Init /\ [][NextResults]_vars

\* C28: every tool message appended by the loop has a text content: the
\* handler's result itself when the result is a text, and otherwise the JSON
\* serialization of the result, whatever the handler returned.
C28_ToolContentIsText ==
  IsSimple =>
    /\ \A k \in DOMAIN messages :
         messages[k].role = "tool" => messages[k].content.t = "string"
    /\ \A e \in DOMAIN invoked :
         (e <= Len(settled) /\ settled[e].k = "return"
          /\ Answered(invoked[e].round, invoked[e].index)) =>
           LET content == messages[ToolMsgPos(invoked[e].round, invoked[e].index)].content
           IN  IF settled[e].v.t = "string"
               THEN content = settled[e].v
               ELSE content.t = "string" /\ content = Stringify(settled[e].v)

\* ------------------------------------------------------------ duplicate names
\* The positions of the supplied tools named name.
PositionsOf(name) ==
  IF Nullish(options.tools) THEN {}
  ELSE { j \in 1..Len(options.tools.a) : options.tools.a[j].name = name }

\* Two of the supplied tools share a name.
HasDuplicate ==
  /\ ~Nullish(options.tools)
  /\ \E j, k \in 1..Len(options.tools.a) :
       j < k /\ options.tools.a[j].name = options.tools.a[k].name

\* C29: when two tools supplied to one send share a name, every handler
\* invocation for a call of that name is of the tool later in the list, never
\* of the earlier one, both tools are declared on the wire, and send fails
\* with nothing but an API error or the iteration limit.
C29_LastToolWins ==
  (IsSimple /\ HasDuplicate) =>
    /\ \A e \in DOMAIN invoked :
         LET name == CallsOf(invoked[e].round)[invoked[e].index].function.name
             last == CHOOSE j \in PositionsOf(name) : \A k \in PositionsOf(name) : k <= j
         IN  /\ invoked[e].hid = options.tools.a[last].hid
             /\ \A k \in PositionsOf(name) \ {last} :
                  invoked[e].hid # options.tools.a[k].hid
    /\ \A r \in DOMAIN requests :
         Len(requests[r].body.tools.a) = Len(options.tools.a)
    /\ (outcome # Undef /\ outcome.k = "throw") =>
         /\ outcome.v.t = "error"
         /\ outcome.v.message \in CallFailures

\* C29 witness: of two tools named get_weather the second one's handler ran
\* for a get_weather call and its result was sent back in the next round.
C29_Witness ==
  /\ IsSimple
  /\ HasDuplicate
  /\ Len(invoked) = 1
  /\ invoked[1].hid = "weather2"
  /\ Len(settled) = 1
  /\ settled[1] = Return(Str("sunny"))
  /\ Len(requests) = 2
  /\ Sent(2)[Len(Sent(2))].content = Str("sunny")

\* ------------------------------------------------------------ validated invocation
ValidatedOptions ==
  { [model |-> "gpt-4o", input |-> Str("What is the weather?"), tools |-> tl,
     maxToolIterations |-> Num(MaxIter)] :
      tl \in {Arr(<<WeatherTool>>), Arr(<<WeatherTool, WeatherTool2>>)} }

\* Responses: one call, of the registered tool with arguments of every kind
\* or of an unknown tool, or a final answer.
ValidatedResponses ==
  { [ok |-> TRUE, status |-> 200, text |-> "",
     data |-> [choices |-> c, usage |-> Undef]] :
      c \in { Arr(<<Choice(0, Null, Arr(<<ToolCall("call_1", "get_weather", a)>>),
                           Str("tool_calls"))>>) :
                a \in {ArgsGood, ArgsExtra, ArgsWrongType, ArgsEmpty, ArgsMalformed} }
            \cup
            { Arr(<<Choice(0, Null, Arr(<<ToolCall("call_1", "get_time", ArgsGood)>>),
                           Str("tool_calls"))>>),
              Arr(<<Choice(0, Str("Hi"), Undef, Str("stop"))>>) } }

NextValidated ==
  \/ \E opts \in ValidatedOptions \cup AdvancedOptions : send(opts)
  \/ \E res \in ValidatedResponses : callApiResolve(res)
  \/ \E res \in ValidatedResponses : sendAdvancedResolve(res)
  \/ toolCallStep
  \/ \E o \in {Return(Str("sunny")), Throw(Err("Error", "boom"))} : handlerSettle(o)

SpecValidated == Init /\ [][NextValidated]_vars

\* C30: a handler is invoked only for a tool call of the current round that
\* names the handler's tool, whose argument text parses to an object with a
\* text location, and it is given exactly the arguments the schema declares;
\* nothing is invoked before the first response (the wire declarations are
\* built by then) nor in advanced mode.
C30_InvokedAfterValidation ==
  /\ method = "send" =>
       \A e \in DOMAIN invoked :
         /\ IsSimple
         /\ invoked[e].round \in 1..Len(received)
         /\ invoked[e].index \in 1..Len(CallsOf(invoked[e].round))
         /\ LET call == CallsOf(invoked[e].round)[invoked[e].index]
                rawArgs == JSONParse(call.function.arguments)
            IN  /\ invoked[e].id = call.id
                /\ \E j \in 1..Len(options.tools.a) :
                     /\ options.tools.a[j].hid = invoked[e].hid
                     /\ options.tools.a[j].name = call.function.name
                /\ rawArgs.ok
                /\ "location" \in DOMAIN rawArgs.value
                /\ rawArgs.value.location.t = "string"
                /\ invoked[e].args = [t |-> "object", location |-> rawArgs.value.location]
  /\ (method = "send" /\ Len(received) = 0) => invoked = <<>>
  /\ Len(settled) <= Len(invoked)

\* C30 witness: the handler ran for a call whose argument text has a key the
\* schema does not declare, and was given the location alone.
C30_Witness ==
  /\ IsSimple
  /\ Len(invoked) = 1
  /\ CallsOf(1)[1].function.arguments = ArgsExtra
  /\ invoked[1].args = [t |-> "object", location |-> Str("Paris")]
  /\ Len(requests[1].body.tools.a) = 2
  /\ Len(settled) = 1

\* ------------------------------------------------------------ stream: reads and text
\* The chunks the decode loop yields over the lines ls taken in one piece.
RECURSIVE YieldsOf(_)
YieldsOf(ls) ==
  LET d == Decode(ls)
  IN  IF d.k = "yield" THEN <<d.chunk>> \o YieldsOf(d.rest) ELSE <<>>

\* The chunks of the text txt had it arrived whole, in a single read.
WholeChunks(txt) == YieldsOf(CompleteLines(txt))

\* Some read ended inside a data frame: the text read up to it ends with an
\* unfinished line that holds a payload, in part or whole.
SplitFrame(n) ==
  LET ls == Split(Concat(SubSeq(reads, 1, n)))
      tr == Trim(ls[Len(ls)])
  IN  tr # <<>> /\ tr[1] = DataPrefix

\* C31: the chunks yielded depend only on the concatenated text of the
\* reads, not on where the reads cut it: they are always a prefix of the chunks
\* the whole text gives in a single read and, once everything that arrived is
\* decoded, exactly those; while the generator waits for a read, the buffer is
\* the text after the last newline.
C31_SplitIndependent ==
  IsStream =>
    LET whole == WholeChunks(Concat(reads))
    IN  /\ IsPrefixOf(chunks, whole)
        /\ Drained => chunks = whole
        /\ pc = "read" =>
             LET ls == Split(Concat(reads)) IN buffer = ls[Len(ls)]

\* C31 witness: the first read ended inside a frame, the second completed it,
\* and the frame's chunk was yielded as it is for the frame arriving whole.
C31_Witness ==
  /\ IsStream
  /\ Len(reads) = 2
  /\ SplitFrame(1)
  /\ reads[1] = <<DataPrefix, HiA>>
  /\ reads[2][1] = HiB
  /\ chunks = <<ChunkOf(<<HiA, HiB>>)>>
  /\ chunks = WholeChunks(<<DataPrefix, HiA>> \o reads[2])

\* ------------------------------------------------------------ termination
LiveOptions ==
  { [model |-> "gpt-4o", input |-> Str("What is the weather?"), tools |-> tl,
     maxToolIterations |-> Num(n)] :
      tl \in {Undef, Arr(<<WeatherTool>>)}, n \in 0..MaxIter }

\* Responses: the error responses, an API failure, and a call of an unknown tool.
LiveResponses ==
  ErrorResponses \cup
  { [ok |-> FALSE, status |-> 500, text |-> "Internal Server Error",
     data |-> [choices |-> Undef, usage |-> Undef]],
    [ok |-> TRUE, status |-> 200, text |-> "",
     data |-> [choices |-> Arr(<<Choice(0, Null,
                   Arr(<<ToolCall("call_1", "get_time", ArgsEmpty)>>),
                   Str("tool_calls"))>>), usage |-> Undef]] }

NextLive ==
  \/ \E opts \in LiveOptions : send(opts)
  \/ \E res \in LiveResponses : callApiResolve(res)
  \/ toolCallStep
  \/ \E o \in {Return(Str("sunny")), Throw(Err("Error", "boom"))} : handlerSettle(o)

\* Every request is answered, every handler invocation settles, and the loop
\* itself runs on when it can: await resumes once its promise has settled.
SpecLive ==
  /\ Init
  /\ [][NextLive]_vars
  /\ WF_vars(\E res \in LiveResponses : callApiResolve(res))
  /\ WF_vars(toolCallStep)
  /\ WF_vars(\E o \in {Return(Str("sunny")), Throw(Err("Error", "boom"))} : handlerSettle(o))

\* C32: provided every request and every handler invocation completes, a
\* simple-mode send terminates, returning a response or failing, and never
\* makes more than maxToolIterations requests.
C32_Terminates ==
  /\ [](IsSimple => Len(requests) <= MaxToolIterations(options))
  /\ IsSimple ~> (pc = "done" /\ outcome # Undef /\ outcome.k \in {"return", "throw"})

\* C32 witness: the send ended with the iteration-limit failure after as many
\* requests as maxToolIterations allows, every one of them answered.
C32_Witness ==
  /\ IsSimple
  /\ pc = "done"
  /\ options.maxToolIterations = Num(MaxIter)
  /\ Len(requests) = MaxIter
  /\ Len(received) = MaxIter
  /\ Len(settled) = Len(invoked)
  /\ Len(invoked) >= 1
  /\ outcome.k = "throw"

\* ------------------------------------------------------------ no rounds allowed
\* Simple-mode options whose maxToolIterations may be zero or negative.
ZeroOptions ==
  { [model |-> "gpt-4o", input |-> Str("What is the weather?"), tools |-> tl,
     maxToolIterations |-> Num(n)] :
      tl \in {Undef, Arr(<<WeatherTool>>)}, n \in (0 - 1)..MaxIter }

NextZero ==
  \/ \E opts \in ZeroOptions : send(opts)
  \/ \E res \in LiveResponses : callApiResolve(res)
  \/ toolCallStep
  \/ \E o \in {Return(Str("sunny")), Throw(Err("Error", "boom"))} : handlerSettle(o)

SpecZero == Init /\ [][NextZero]_vars

\* C33: with maxToolIterations <= 0 a simple-mode send makes no request,
\* invokes no handler and has failed, as soon as it is called, with the
\* iteration-limit error naming the value passed.
C33_NoRounds ==
  (IsSimple /\ options.maxToolIterations.n <= 0) =>
    /\ requests = <<>>
    /\ invoked = <<>>
    /\ messages = <<UserMessage(options.input.s)>>
    /\ pc = "done"
    /\ outcome = Throw(Err("Error", "Max tool iterations ("
                       \o ToString(options.maxToolIterations.n) \o ") reached"))

\* C33 witness: a send with tools and a negative maxToolIterations has failed
\* without a request.
C33_Witness ==
  /\ IsSimple
  /\ options.maxToolIterations.n < 0
  /\ ~Nullish(options.tools)
  /\ pc = "done"
  /\ requests = <<>>
  /\ outcome = Throw(Err("Error", "Max tool iterations (-1) reached"))

\* ------------------------------------------------------------ the final round
\* The call has failed with the iteration-limit error.
LimitReached ==
  /\ IsSimple
  /\ pc = "done"
  /\ outcome = Throw(MaxIterationsError(options))

\* The tool loop of round r was executed: every call of the round has its
\* tool message in the conversation, and every call that passed validation
\* had its handler invoked and settled.
ToolsExecuted(r) ==
  /\ r <= Len(received)
  /\ Len(CallsOf(r)) >= 1
  /\ Len(messages) >= ToolMsgPos(r, Len(CallsOf(r)))
  /\ \A i \in 1..Len(CallsOf(r)) :
       /\ messages[ToolMsgPos(r, i)].role = "tool"
       /\ messages[ToolMsgPos(r, i)].tool_call_id = Str(CallsOf(r)[i].id)
       /\ Invokable(CallsOf(r)[i]) =>
            \E e \in 1..Len(settled) : InvocationsFor(r, i) = {e}

\* C34: when send has failed with the iteration-limit error, the tool loop of
\* every round, the final one included, was executed (handlers invoked and
\* settled, tool messages appended), so the rounds executed are as many as the
\* requests made; and the tool messages of the final round, the tail of the
\* conversation, are in no request.
C34_FinalRoundExecuted ==
  LimitReached =>
    LET n == Len(requests)
    IN  /\ Len(received) = n
        /\ Cardinality({ r \in 1..Len(received) : ToolsExecuted(r) }) = n
        /\ n >= 1 =>
             /\ Len(messages) = Len(Sent(n)) + 1 + Len(CallsOf(n))
             /\ \A r \in 1..n : Len(Sent(r)) < ToolMsgPos(n, 1)
             /\ \A j \in ToolMsgPos(n, 1)..Len(messages) : messages[j].role = "tool"
             /\ \A r \in 1..n : \A j \in 1..Len(Sent(r)) :
                  Sent(r)[j].role = "tool" =>
                    \A i \in 1..Len(CallsOf(n)) :
                      Sent(r)[j].tool_call_id # Str(CallsOf(n)[i].id)
                      \/ \E q \in 1..(n - 1) : \E h \in 1..Len(CallsOf(q)) :
                           CallsOf(q)[h].id = CallsOf(n)[i].id

\* C34 witness: the cap of two rounds was hit; the final round had two calls,
\* both invoked, and its two tool messages end the conversation.
C34_Witness ==
  /\ LimitReached
  /\ Len(requests) = 2
  /\ Len(CallsOf(2)) = 2
  /\ Cardinality({ e \in 1..Len(invoked) : invoked[e].round = 2 }) = 2
  /\ Len(settled) = Len(invoked)
  /\ messages[Len(messages)].role = "tool"
  /\ Len(messages) > Len(Sent(2)) + 1

\* ------------------------------------------------------------ the first choice
\* Responses whose finish_reason and tool_calls disagree, whose later choices
\* carry tool calls, and a call whose argument text is not JSON.
ChoiceResponses ==
  { [ok |-> TRUE, status |-> 200, text |-> "",
     data |-> [choices |-> c, usage |-> Undef]] :
      c \in { Arr(<<Choice(0, Str("Hi"), Undef, Str("stop"))>>),
              Arr(<<Choice(0, Null, Undef, Str("tool_calls"))>>),
              Arr(<<Choice(0, Null, Arr(<<>>), Str("tool_calls"))>>),
              Arr(<<Choice(0, Null, Arr(<<ToolCall("call_1", "get_weather", ArgsGood)>>),
                           Str("tool_calls"))>>),
              Arr(<<Choice(0, Str("Checking"),
                           Arr(<<ToolCall("call_1", "get_weather", ArgsGood)>>),
                           Str("stop"))>>),
              Arr(<<Choice(0, Str("Hi"), Undef, Str("stop")),
                    Choice(1, Null, Arr(<<ToolCall("call_9", "get_weather", ArgsGood)>>),
                           Str("tool_calls"))>>),
              Arr(<<Choice(0, Null, Arr(<<ToolCall("call_1", "get_weather", ArgsGood)>>),
                           Str("tool_calls")),
                    Choice(1, Null, Arr(<<ToolCall("call_9", "get_weather", ArgsWrongType),
                                          ToolCall("call_8", "get_time", ArgsEmpty)>>),
                           Str("tool_calls"))>>),
              Arr(<<Choice(0, Null, Arr(<<ToolCall("call_1", "get_weather", ArgsMalformed),
                                          ToolCall("call_2", "get_weather", ArgsGood)>>),
                           Str("tool_calls"))>>) } }

NextChoices ==
  \/ \E opts \in ErrorOptions : send(opts)
  \/ \E res \in ChoiceResponses : callApiResolve(res)
  \/ toolCallStep
  \/ \E o \in {Return(Str("sunny")), Throw(Err("Error", "boom"))} : handlerSettle(o)

SpecChoices == Init /\ [][NextChoices]_vars

\* The finish_reason of the first choice of the response of round r.
FinishReasonOf(r) == received[r].data.choices.a[1].finish_reason

\* C35: the loop stops at the response of round r exactly when the first
\* choice's tool_calls is absent or empty, whatever its finish_reason: the call
\* has returned that response then, and with tool calls it has not returned and
\* the assistant message echoing them was appended.
C35_DecisionByToolCalls ==
  IsSimple =>
    \A r \in 1..Len(received) :
      IF Len(CallsOf(r)) = 0
      THEN /\ r = Len(received)
           /\ pc = "done"
           /\ outcome = Return(SendResponse(received[r].data.choices, Undef))
      ELSE /\ Len(messages) >= Len(Sent(r)) + 1
           /\ messages[Len(Sent(r)) + 1].role = "assistant"
           /\ messages[Len(Sent(r)) + 1].tool_calls = Arr(CallsOf(r))
           /\ (outcome # Undef /\ outcome.k = "return") => r < Len(received)
           /\ RoundOver(r) => ToolsExecuted(r)

\* C35 witness: the first response said 'stop' but carried a tool call and the
\* loop went on; the second said 'tool_calls' but carried none and was returned.
C35_Witness ==
  /\ IsSimple
  /\ Len(received) = 2
  /\ FinishReasonOf(1) = Str("stop")
  /\ Len(CallsOf(1)) = 1
  /\ Len(requests) = 2
  /\ FinishReasonOf(2) = Str("tool_calls")
  /\ Len(CallsOf(2)) = 0
  /\ pc = "done"
  /\ outcome.k = "return"

\* The ids of the tool calls of the second choice of the response of round r.
SecondChoiceIds(r) ==
  LET c == received[r].data.choices.a
  IN  IF Len(c) >= 2 /\ c[2].message.tool_calls.t = "array"
      THEN { c[2].message.tool_calls.a[i].id : i \in 1..Len(c[2].message.tool_calls.a) }
      ELSE {}

\* The messages appended to the conversation in round r so far.
AppendedIn(r) ==
  LET from == Len(Sent(r)) + 1
      to == IF r < Len(requests) THEN Len(Sent(r + 1)) ELSE Len(messages)
  IN  SubSeq(messages, from, to)

\* C36: the messages appended in a round and the handlers invoked in it come
\* from the first choice alone: an assistant message echoing the first
\* choice's content and tool calls, then tool messages for those calls in
\* order; each invocation is for one of those calls with its arguments; and no
\* id of a tool call of a later choice is in the conversation or invoked.
C36_FirstChoiceAlone ==
  IsSimple =>
    \A r \in 1..Len(received) :
      LET calls == CallsOf(r)
          first == received[r].data.choices.a[1]
          app == AppendedIn(r)
      IN  /\ Len(app) <= (IF Len(calls) = 0 THEN 0 ELSE 1 + Len(calls))
          /\ Len(app) >= 1 =>
               /\ app[1].role = "assistant"
               /\ app[1].content = Coalesce(first.message.content, Undef)
               /\ app[1].tool_calls = first.message.tool_calls
          /\ \A i \in 1..(Len(app) - 1) :
               /\ app[i + 1].role = "tool"
               /\ app[i + 1].tool_call_id = Str(calls[i].id)
          /\ \A e \in 1..Len(invoked) :
               invoked[e].round = r =>
                 /\ invoked[e].index \in 1..Len(calls)
                 /\ invoked[e].id = calls[invoked[e].index].id
                 /\ invoked[e].args =
                      SchemaParse(WeatherTool.schema,
                        JSONParse(calls[invoked[e].index].function.arguments).value).value
          /\ RoundOver(r) => Len(app) = (IF Len(calls) = 0 THEN 0 ELSE 1 + Len(calls))
          /\ \A id \in SecondChoiceIds(r) :
               /\ \A e \in 1..Len(invoked) : invoked[e].id # id
               /\ \A j \in 1..Len(messages) :
                    /\ messages[j].role = "tool" => messages[j].tool_call_id # Str(id)
                    /\ (messages[j].role = "assistant" /\ messages[j].tool_calls.t = "array") =>
                         \A i \in 1..Len(messages[j].tool_calls.a) :
                           messages[j].tool_calls.a[i].id # id

\* C36 witness: the first response carried one call in its first choice and
\* two in its second, the round is over with one invocation and two messages
\* appended; the second response carried a call in its second choice only and
\* was returned with nothing appended.
C36_Witness ==
  /\ IsSimple
  /\ Len(received) = 2
  /\ Len(CallsOf(1)) = 1
  /\ SecondChoiceIds(1) = {"call_9", "call_8"}
  /\ Len(AppendedIn(1)) = 2
  /\ Len(invoked) = 1
  /\ Len(CallsOf(2)) = 0
  /\ SecondChoiceIds(2) = {"call_9"}
  /\ AppendedIn(2) = <<>>
  /\ pc = "done"
  /\ outcome.k = "return"

\* ------------------------------------------------------------ invalid arguments
\* The messages of the ZodErrors that are thrown.
ZodMessages ==
  { "Expected string, received undefined", "Expected string, received number",
    "Expected number, received string" }

\* The text is the serialized {error: "Invalid arguments: ..."}.
IsInvalidArguments(content) ==
  \E m \in ZodMessages : content = ErrorContent("Invalid arguments: " \o m)

\* C37: whenever a tool message carries an 'Invalid arguments: ...' error, the
\* schema rejected the call's arguments and the tool's handler was not invoked
\* for that call.
C37_InvalidArgumentsNotInvoked ==
  IsSimple =>
    \A ri \in AnsweredCalls :
      IsInvalidArguments(messages[ToolMsgPos(ri[1], ri[2])].content) =>
        /\ InvocationsFor(ri[1], ri[2]) = {}
        /\ ValidationError(CallsOf(ri[1])[ri[2]]) # Undef

\* ------------------------------------------------------------ malformed arguments
\* The calls of registered tools whose argument text is not JSON, as
\* <<round, index>>.
MalformedCalls ==
  { ri \in (1..Len(received)) \X (1..2) :
      /\ ri[2] <= Len(CallsOf(ri[1]))
      /\ CallsOf(ri[1])[ri[2]].function.name \in ToolNames
      /\ CallsOf(ri[1])[ri[2]].function.arguments = ArgsMalformed }

\* C38: for a call of a registered tool whose argument text is not valid
\* JSON, the handler is not invoked, the tool message is the serialized
\* {error: "Tool execution failed: <parser message>"} and not an 'Invalid
\* arguments' result, and send does not fail with the parser's error: the
\* round goes on to its other calls.
C38_MalformedArguments ==
  IsSimple =>
    \A ri \in MalformedCalls :
      LET r == ri[1]
          i == ri[2]
      IN  /\ InvocationsFor(r, i) = {}
          /\ (r < Len(received) \/ tcIndex > i \/ pc = "done") => Answered(r, i)
          /\ Answered(r, i) =>
               /\ messages[ToolMsgPos(r, i)].role = "tool"
               /\ messages[ToolMsgPos(r, i)].tool_call_id = Str(CallsOf(r)[i].id)
               /\ messages[ToolMsgPos(r, i)].content =
                    Str("{\"error\":\"Tool execution failed: Unexpected end of JSON input\"}")
               /\ ~IsInvalidArguments(messages[ToolMsgPos(r, i)].content)
          /\ outcome # Undef =>
               \/ outcome.k = "return"
               \/ outcome = Throw(MaxIterationsError(options))
          /\ RoundOver(r) => ToolsExecuted(r)

\* C38 witness: the first call of a round had malformed arguments; it has its
\* error message, the second call of the round was invoked, and send returned
\* a later response.
C38_Witness ==
  /\ IsSimple
  /\ Len(received) = 2
  /\ Len(messages) >= 4
  /\ <<1, 1>> \in MalformedCalls
  /\ Len(CallsOf(1)) = 2
  /\ messages[3].content =
       Str("{\"error\":\"Tool execution failed: Unexpected end of JSON input\"}")
  /\ InvocationsFor(1, 1) = {}
  /\ InvocationsFor(1, 2) = {1}
  /\ pc = "done"
  /\ outcome.k = "return"

\* ------------------------------------------------------------ the end of the stream
\* Reads whose last data frame may lack its newline, the newlines arriving
\* in a later read or not at all.
EndReadPool ==
  { <<DataPrefix, HiA, HiB, NL, NL>>,
    <<DataPrefix, StopJson>>,
    <<DataPrefix, HiA, HiB, NL, NL, DataPrefix, StopJson>>,
    <<NL, NL>>,
    <<DataPrefix, DoneToken, NL, NL>>,
    <<DataPrefix, DoneToken>> }

EndReadResults ==
  { [done |-> TRUE, value |-> <<>>] } \cup { [done |-> FALSE, value |-> v] : v \in EndReadPool }

NextStreamEnd ==
  \/ stream("gpt-4o", Str("Hello"))
  \/ pull
  \/ generatorReturn
  \/ \E res \in StreamResponses : streamFetchResolve(res)
  \/ \E r \in EndReadResults : readResolve(r)

SpecStreamEnd == Init /\ [][NextStreamEnd]_vars

\* The generator ended because the network stream ended: the response was
\* readable, the consumer did not leave, and no termination token stood on a
\* complete line.
EndedByStream ==
  /\ IsStream
  /\ pc = "done"
  /\ ~Abandoned
  /\ Len(received) = 1
  /\ received[1].ok
  /\ Truthy(received[1].body)
  /\ ~DoneSeenIn(Len(reads))

\* C39: the chunks yielded come from newline-terminated lines only, and when
\* the network stream ends without a termination token the generator ends
\* without error having yielded exactly the chunks of the complete lines; what
\* arrived after the last newline is still undecoded in the buffer.
C39_UnterminatedDiscarded ==
  IsStream =>
    LET txt == Concat(reads)
        whole == WholeChunks(txt)
        rest == Split(txt)[Len(Split(txt))]
    IN  /\ IsPrefixOf(chunks, whole)
        /\ EndedByStream =>
             /\ outcome = Return(Undef)
             /\ chunks = whole
             /\ buffer = rest
             /\ Decode(<<rest>>).k = "yield" => Len(chunks) < Len(YieldsOf(Split(txt)))

\* C39 witness: the stream ended after one complete frame and one complete
\* data frame without its newline; one chunk was yielded and the second frame
\* is left in the buffer.
C39_Witness ==
  /\ EndedByStream
  /\ outcome = Return(Undef)
  /\ buffer = <<DataPrefix, StopJson>>
  /\ chunks = <<ChunkOf(<<HiA, HiB>>)>>
  /\ Decode(<<buffer>>).k = "yield"
====
